---- MODULE Spec2Model ----
(***************************************************************************)
(* Model of the scrape orchestration core of obsidian-mcp-actor:           *)
(*   - retryWithBackoff, in its two implementations (the helper retry loop *)
(*     and utils/RetryService, the one UnifiedScraper imports);            *)
(*   - validateUrl (utils/url);                                            *)
(*   - UnifiedScraper.scrape with the legacy ScrapeCache, one call at a    *)
(*     time and several calls at once;                                     *)
(*   - MemoryCache, PersistentScrapeCache and PersistentCache;             *)
(*   - ActorService.processUrls and the helper scrapeMany;                 *)
(*   - the browser scrapers (PlaywrightStrategy, scrapeWebsitePlaywright)  *)
(*     and their release of browser and context;                           *)
(*   - isAllowedByRobots, validateContent and the title extraction;        *)
(*   - NoteManager.create, scrapeWebsiteWithFailover, the scrape_website   *)
(*     tool of the MCP server, the strategies' own caches, and the calls   *)
(*     that overlap PersistentScrapeCache.set and PersistentCache.save.    *)
(* The specifications share the module: SpecRetry, Spec (the               *)
(* orchestrator), SpecMemoryCache, SpecPersistentScrapeCache,              *)
(* SpecPersistentCache, SpecProcessUrls, SpecScrapeMany,                   *)
(* SpecConcurrentScrape, SpecPlaywright, SpecRobots, SpecValidateUrl,      *)
(* SpecValidateContent, SpecTitle, SpecNoteManager, SpecFailover,          *)
(* SpecMcpServer, SpecStrategies, SpecOverlappingSets and                  *)
(* SpecSaveOverlap.  Each leaves the variables of the others at fixed      *)
(* values.                                                                 *)
(***************************************************************************)
EXTENDS Integers, Sequences, FiniteSets, TLC

(***************************************************************************)
(* Bounds of the model.                                                    *)
(***************************************************************************)
MaxRetries == 3
MaxFails == 3
MaxCalls == 2
MaxExtWrites == 1
MaxSize == 2
MaxTime == 3
MaxOps == 4
MaxMemorySize == 1
MaxKvOps == 4
MaxDiskOps == 5
MaxInstances == 2
MaxUrls == 2
MaxWorkers == 2
MaxEntries == 3
MaxConcurrent == 2
MaxPwRetries == 2
MaxRobotsLines == 3
MaxUrlTokens == 3
MaxCreates == 4
MaxNoteTime == 3
MaxFailoverCalls == 2
MaxToolCalls == 3
MaxToolRetries == 3
MaxStrategyCalls == 3
MaxOverlap == 2
MaxSaveOps == 4

(***************************************************************************)
(* JavaScript values the model distinguishes.                              *)
(***************************************************************************)
Undefined == "undefined"
Null == "null"
Records == {"rec1", "rec2"}
Truthy(v) == v \in Records
\* the default baseDelay, in ms
BaseDelayMs == 1000

VARIABLES
    \* ---- retryWithBackoff, one call
    impl,          \* which module's retryWithBackoff is called
    maxRetries,    \* its second argument
    opAlways,      \* the operation fails on every call
    opK,           \* otherwise it fails on its first opK calls, then succeeds
    attempt,       \* loop variable
    calls,         \* invocations of fn so far
    sleeps,        \* setTimeout waits so far
    rBaseDelay,    \* its third argument, in ms
    rWaits,        \* the delays handed to setTimeout, in order, in 1/Scale ms
    lastErr,       \* 0 = null, n = the error thrown by call n
    rpc,           \* position: "start", "loop", "sleep", "done"
    rres,          \* how the promise settled
    \* ---- UnifiedScraper
    usePlaywright, retries, baseDelay,   \* constructor options
    cache,         \* ScrapeCache.cache: normalized URL -> value, or Absent
    pc,            \* position of the current scrape call
    input,         \* the argument of the current scrape call
    normalizedUrl, \* validateUrl's result
    outcome,       \* how the current scrape call settled
    robots,        \* what isAllowedByRobots answered: "unknown", "allowed", "disallowed"
    cacheHit,      \* the call returned the cached value
    dispatched,    \* the call reached the strategy dispatch
    result,        \* the value a retryWithBackoff call resolved with
    robotsFetches, waits, cacheGets, cacheSets,
    staticCalls, staticFails, renderCalls, renderFails, backoffSleeps,
    cacheAtStart,  \* the cache when the current call started
    callNo,        \* scrape calls started so far
    prev,          \* the previous completed call
    fetchesTotal,  \* strategy invocations over all calls
    extWrites,     \* writes to the shared cache by its other owners
    \* ---- MemoryCache
    mcache,        \* this.cache: the Map's entries in insertion order
    maxSize, ttl,  \* constructor options; ttl 0 stands for null
    hits, misses,
    now,           \* Date.now()
    lastOp,        \* the last call made on the cache and what it returned
    opCount,       \* calls made so far
    \* ---- PersistentScrapeCache
    memoryCache,   \* this.memoryCache: the Map's entries in insertion order
    kvStore,       \* the key-value store: URL -> value, or Null
    kvLastSet,     \* the value of the last completed set of each URL, or Null
    kvLastOp,      \* the last call awaited and what it resolved with
    kvOps,         \* calls made so far
    \* ---- PersistentCache
    pcCache,       \* this.cache of the current instance, in insertion order
    pcDirty,       \* this.dirty
    pcTtl,         \* this.ttl; 0 stands for null
    pcGen,         \* how many instances were constructed on the directory
    dirExists,     \* cacheDir exists on disk
    cacheFile,     \* cache.json: whether it exists, and the entries written
    pcNow,         \* Date.now()
    pcAtSave,      \* this.cache when the last save() completed
    pcLast,        \* the last call awaited on the instance, and when
    pcOps,         \* calls made so far
    \* ---- processUrls
    puUrls,        \* config.urls
    puConfig,      \* usePlaywright
    puServer,      \* a results server is attached
    puCache,       \* the cache of the scraper made for this call
    puI,           \* index of targetUrl in urls
    puPc,          \* position: "scrape", "build", "catch", "broadcast", "done", "rejected"
    puInCatch,     \* control is inside the catch block
    puData,        \* scrapedData
    puErr,         \* err of the catch block
    puResults,     \* results
    puEvents,      \* the calls of resultsServer.broadcast, in order
    \* ---- scrapeMany
    smUrls,        \* urlConfigs
    smOpts,        \* concurrency, useCache, onProgress
    smQueue,       \* queue: the indices into urlConfigs still waiting
    smResults,     \* results
    smCache,       \* the ScrapeCache shared by the workers
    wPc,           \* each worker's position
    wCur,          \* the index of the entry a worker is processing, 0 if none
    wData,         \* the data its scrapeWebsiteWithFailover call resolved with
    smTaken,       \* per entry of urlConfigs, the workers that took it, in order
    \* ---- concurrent UnifiedScraper.scrape calls
    csConfig,      \* usePlaywright, baseDelay, retries of the scraper
    csUrl,         \* the URL all the calls are given
    csCache,       \* the scraper's cache, shared by the calls
    csPc,          \* each call's position
    csOut,         \* how each call settled
    csResult,      \* the value retryWithBackoff resolved with, per call
    csMissed,      \* the call found no cached value
    csWrites,      \* the values written to the cache, in order
    \* ---- the rendering strategy
    pwImpl,        \* PlaywrightStrategy.scrape or the helper scrapeWebsitePlaywright
    pwOpts,        \* enableStealth, blockWebSockets; retries of the helper
    pwUrl,         \* the URL the calls are given
    pwCall,        \* per call: position, the locals browser and context, attempt,
                   \* the pending error, how it settled, and what happened on the way
    pwOpen,        \* the browsers and contexts that are open
    \* ---- isAllowedByRobots
    rbUrl,         \* the normalized URL
    rbResponse,    \* what fetching robots.txt gives
    rbPc,          \* position: "robots", "scrape", "done"
    rbAllowed,     \* the answer, and the line that decided it (0: none)
    rbCached,      \* the scraper's cache held a record for the URL
    rbOut,         \* how the scrape settled
    rbCalls,       \* invocations of the strategy function
    \* ---- validateUrl, twice
    vuInput,       \* the argument
    vuPc,          \* position: "first", "second", "done"
    vuOnce,        \* validateUrl(u)
    vuTwice,       \* validateUrl(validateUrl(u))
    \* ---- validateContent
    vcData,        \* scrapedData
    vcPc,          \* position: "call", "done"
    vcRet,         \* what validateContent returned
    \* ---- title extraction
    tlPage,        \* the page: texts of <title>, first h1, og:title
    tlBy,          \* which producer extracted the title, "none" before
    tlTitle,       \* the title of the record
    \* ---- NoteManager.create
    nmOverwrite,   \* options.overwrite (updateExisting)
    nmFiles,       \* the folder: content of each path, NoNote where there is no file
    nmNow,         \* Date.now()
    nmPc,          \* position of the call: "idle", "exists", "write"
    nmPath,        \* the path the call is about to write
    nmCalls,       \* create calls made; the content of a call is its number
    nmWrites,      \* the writes made: path and whether it existed before
    \* ---- scrapeWebsiteWithFailover
    foHasCache,    \* whether a cache was passed (cache !== null)
    foCache,       \* the ScrapeCache map
    foPc,          \* position: "idle", "playwright", "cheerio", "done"
    foUrl,         \* url of the call
    foUsePlaywright, \* usePlaywright of the call
    foBefore,      \* the cache when the call was made
    foInvoked,     \* the scrapers the call invoked, in order, with their success
    foOut,         \* outcome of the call
    foCalls,       \* calls made
    \* ---- scrape_website tool of mcp-server.js
    mcPc,          \* position of the handler: "idle", "await"
    mcArgs,        \* arguments of the last call: url ("" when missing), retries
    mcScrapes,     \* the scrapes the last call ran: url, retries, ok
    mcResponses,   \* what the handler answered, call by call
    \* ---- CheerioStrategy and PlaywrightStrategy with a shared cache
    stEnableStealth, \* options.enableStealth of the PlaywrightStrategy
    stCache,       \* the shared MemoryCache: its Map's entries in insertion order
    stPc,          \* position of the scrape call: "idle", "crawl", "browser", "done"
    stBy,          \* the strategy called
    stUrl,         \* validUrl of the call
    stRan,         \* the call ran the crawler or launched a browser
    stOut,         \* outcome of the call
    stProduced,    \* per URL, the record the last successful scrape produced
    stKnown,       \* stProduced of the call's URL when the call was made
    stCalls,       \* calls made
    \* ---- PersistentScrapeCache, overlapping set calls
    ksMemory,      \* this.memoryCache: the Map's entries in insertion order
    ksStore,       \* the key-value store, by URL
    ksCall,        \* per set call: its position, url and data
    \* ---- PersistentCache.save and the calls that overlap it
    svCache,       \* this.cache, in insertion order
    svDirty,       \* this.dirty
    svTtl,         \* this.ttl; 0 stands for null
    svNow,         \* Date.now()
    svFile,        \* cache.json: whether it exists, and the entries written
    svPc,          \* "idle", or "writing" while save awaits fs.writeFile
    svWriting,     \* the entries serialized for the write under way
    svSaves,       \* save() calls completed
    svOps          \* calls made so far

retryVars == <<impl, maxRetries, opAlways, opK, attempt, calls, sleeps, lastErr, rpc, rres,
              rBaseDelay, rWaits>>
scrapeVars == <<usePlaywright, retries, baseDelay, cache, pc, input, normalizedUrl,
                outcome, robots, cacheHit, dispatched, result, robotsFetches, waits, cacheGets,
                cacheSets, staticCalls, staticFails, renderCalls, renderFails,
                backoffSleeps, cacheAtStart, callNo, prev, fetchesTotal, extWrites>>
memVars == <<mcache, maxSize, ttl, hits, misses, now, lastOp, opCount>>
kvVars == <<memoryCache, kvStore, kvLastSet, kvLastOp, kvOps>>
diskVars == <<pcCache, pcDirty, pcTtl, pcGen, dirExists, cacheFile, pcNow, pcAtSave,
              pcLast, pcOps>>
puVars == <<puUrls, puConfig, puServer, puCache, puI, puPc, puInCatch, puData, puErr,
            puResults, puEvents>>
smVars == <<smUrls, smOpts, smQueue, smResults, smCache, wPc, wCur, wData, smTaken>>
csVars == <<csConfig, csUrl, csCache, csPc, csOut, csResult, csMissed, csWrites>>
pwVars == <<pwImpl, pwOpts, pwUrl, pwCall, pwOpen>>
rbVars == <<rbUrl, rbResponse, rbPc, rbAllowed, rbCached, rbOut, rbCalls>>
vuVars == <<vuInput, vuPc, vuOnce, vuTwice>>
vcVars == <<vcData, vcPc, vcRet>>
tlVars == <<tlPage, tlBy, tlTitle>>
nmVars == <<nmOverwrite, nmFiles, nmNow, nmPc, nmPath, nmCalls, nmWrites>>
foVars == <<foHasCache, foCache, foPc, foUrl, foUsePlaywright, foBefore, foInvoked, foOut, foCalls>>
mcVars == <<mcPc, mcArgs, mcScrapes, mcResponses>>
stVars == <<stEnableStealth, stCache, stPc, stBy, stUrl, stRan, stOut, stProduced, stKnown, stCalls>>
ksVars == <<ksMemory, ksStore, ksCall>>
svVars == <<svCache, svDirty, svTtl, svNow, svFile, svPc, svWriting, svSaves, svOps>>
notRetryVars == <<scrapeVars, memVars, kvVars, diskVars, puVars, smVars, csVars, pwVars, rbVars, vuVars, vcVars, tlVars, nmVars, foVars, mcVars, stVars, ksVars, svVars>>
notScrapeVars == <<retryVars, memVars, kvVars, diskVars, puVars, smVars, csVars, pwVars, rbVars, vuVars, vcVars, tlVars, nmVars, foVars, mcVars, stVars, ksVars, svVars>>
notMemVars == <<retryVars, scrapeVars, kvVars, diskVars, puVars, smVars, csVars, pwVars, rbVars, vuVars, vcVars, tlVars, nmVars, foVars, mcVars, stVars, ksVars, svVars>>
notKvVars == <<retryVars, scrapeVars, memVars, diskVars, puVars, smVars, csVars, pwVars, rbVars, vuVars, vcVars, tlVars, nmVars, foVars, mcVars, stVars, ksVars, svVars>>
notDiskVars == <<retryVars, scrapeVars, memVars, kvVars, puVars, smVars, csVars, pwVars, rbVars, vuVars, vcVars, tlVars, nmVars, foVars, mcVars, stVars, ksVars, svVars>>
notPuVars == <<retryVars, scrapeVars, memVars, kvVars, diskVars, smVars, csVars, pwVars, rbVars, vuVars, vcVars, tlVars, nmVars, foVars, mcVars, stVars, ksVars, svVars>>
notSmVars == <<retryVars, scrapeVars, memVars, kvVars, diskVars, puVars, csVars, pwVars, rbVars, vuVars, vcVars, tlVars, nmVars, foVars, mcVars, stVars, ksVars, svVars>>
notCsVars == <<retryVars, scrapeVars, memVars, kvVars, diskVars, puVars, smVars, pwVars, rbVars, vuVars, vcVars, tlVars, nmVars, foVars, mcVars, stVars, ksVars, svVars>>
notPwVars == <<retryVars, scrapeVars, memVars, kvVars, diskVars, puVars, smVars, csVars, rbVars, vuVars, vcVars, tlVars, nmVars, foVars, mcVars, stVars, ksVars, svVars>>
notRbVars == <<retryVars, scrapeVars, memVars, kvVars, diskVars, puVars, smVars, csVars, pwVars, vuVars, vcVars, tlVars, nmVars, foVars, mcVars, stVars, ksVars, svVars>>
notVuVars == <<retryVars, scrapeVars, memVars, kvVars, diskVars, puVars, smVars, csVars, pwVars, rbVars, vcVars, tlVars, nmVars, foVars, mcVars, stVars, ksVars, svVars>>
notVcVars == <<retryVars, scrapeVars, memVars, kvVars, diskVars, puVars, smVars, csVars, pwVars, rbVars, vuVars, tlVars, nmVars, foVars, mcVars, stVars, ksVars, svVars>>
notTlVars == <<retryVars, scrapeVars, memVars, kvVars, diskVars, puVars, smVars, csVars, pwVars, rbVars, vuVars, vcVars, nmVars, foVars, mcVars, stVars, ksVars, svVars>>
notNmVars == <<retryVars, scrapeVars, memVars, kvVars, diskVars, puVars, smVars, csVars, pwVars, rbVars, vuVars, vcVars, tlVars, foVars, mcVars, stVars, ksVars, svVars>>
notFoVars == <<retryVars, scrapeVars, memVars, kvVars, diskVars, puVars, smVars, csVars, pwVars, rbVars, vuVars, vcVars, tlVars, nmVars, mcVars, stVars, ksVars, svVars>>
notMcVars == <<retryVars, scrapeVars, memVars, kvVars, diskVars, puVars, smVars, csVars, pwVars, rbVars, vuVars, vcVars, tlVars, nmVars, foVars, stVars, ksVars, svVars>>
notStVars == <<retryVars, scrapeVars, memVars, kvVars, diskVars, puVars, smVars, csVars, pwVars, rbVars, vuVars, vcVars, tlVars, nmVars, foVars, mcVars, ksVars, svVars>>
notKsVars == <<retryVars, scrapeVars, memVars, kvVars, diskVars, puVars, smVars, csVars, pwVars, rbVars, vuVars, vcVars, tlVars, nmVars, foVars, mcVars, stVars, svVars>>
notSvVars == <<retryVars, scrapeVars, memVars, kvVars, diskVars, puVars, smVars, csVars, pwVars, rbVars, vuVars, vcVars, tlVars, nmVars, foVars, mcVars, stVars, ksVars>>
vars == <<retryVars, scrapeVars, memVars, kvVars, diskVars, puVars, smVars, csVars, pwVars, rbVars, vuVars, vcVars, tlVars, nmVars, foVars, mcVars, stVars, ksVars, svVars>>

(***************************************************************************)
(* retryWithBackoff.                                                       *)
(***************************************************************************)
Pending == [kind |-> "pending", val |-> Undefined, err |-> 0]

\* scrapeWebsite: throw lastErr || new Error('Failed to scrape URL after all retries')
NewError == -1

\* what call number n of the operation does
OpFails(n) == opAlways \/ n <= opK

\* the helper retry loop with the return of "return await fn()" dropped:
\* fn is invoked on every pass and lastErr is thrown at the end
RetryLoopWithoutReturn(fn, maxR, baseD) ==
    [threw |-> TRUE, value |-> Undefined, err |-> "null", calls |-> maxR,
     fails |-> IF fn.threw THEN maxR ELSE 0, sleeps |-> 0]

\* a retry loop that runs attempts 0..maxRetries and keeps the last value
RetryService_retryWithBackoff_offByOne(fn, maxR, baseD) ==
    [threw |-> fn.threw, value |-> fn.value, err |-> fn.err, calls |-> maxR + 1,
     fails |-> IF fn.threw THEN maxR + 1 ELSE 0, sleeps |-> maxR]

\* utils/RetryService.js: the body is empty, so the promise resolves with
\* undefined and fn is never invoked.  fn is what one invocation of the
\* wrapped function would give.
RetryService_retryWithBackoff(fn, maxR, baseD) ==
    [threw |-> FALSE, value |-> Undefined, err |-> "none", calls |-> 0, fails |-> 0, sleeps |-> 0]

\* delays are kept as integers, in units of 1/Scale ms
Scale == 10000
\* Math.random(), in thousandths
Randoms == {0, 250, 500, 999}
BaseDelays == {0, 1, BaseDelayMs}

RECURSIVE Pow2(_)
Pow2(n) == IF n = 0 THEN 1 ELSE 2 * Pow2(n - 1)

Max(a, b) == IF a >= b THEN a ELSE b

\* exponential = baseDelay * Math.pow(2, attempt - 1)
Exponential(baseD, n) == baseD * Pow2(n - 1)

\* the same with a jitter factor of 1.2
BackoffDelay_wideJitter(baseD, n, rnd) ==
    Max(Scale * Exponential(baseD, n) + (rnd - 500) * 12 * Exponential(baseD, n), Scale * baseD)

\* jitter = (Math.random() - 0.5) * 0.6 * exponential;
\* delay = Math.max(exponential + jitter, baseDelay)
BackoffDelay(baseD, n, rnd) ==
    Max(Scale * Exponential(baseD, n) + (rnd - 500) * 6 * Exponential(baseD, n), Scale * baseD)

\* scrapeWebsite's own retry loop: const wait = attempt * 1000
LinearWait(n) == Scale * n * BaseDelayMs

RetryInit ==
    /\ impl \in {"retry", "RetryService", "scrapeWebsite"}
    /\ rBaseDelay \in BaseDelays
    /\ rWaits = <<>>
    /\ maxRetries \in 0..MaxRetries
    /\ opAlways \in BOOLEAN
    /\ opK \in 0..MaxFails
    /\ attempt = 1
    /\ calls = 0
    /\ sleeps = 0
    /\ lastErr = 0
    /\ rpc = "start"
    /\ rres = Pending

RetryParked ==
    /\ impl = "retry"
    /\ rBaseDelay = 0
    /\ rWaits = <<>>
    /\ maxRetries = 0
    /\ opAlways = FALSE
    /\ opK = 0
    /\ attempt = 1
    /\ calls = 0
    /\ sleeps = 0
    /\ lastErr = 0
    /\ rpc = "done"
    /\ rres = Pending

\* let lastErr = null; for (let attempt = 1; ...
RetryEnter ==
    /\ rpc = "start"
    /\ impl \in {"retry", "scrapeWebsite"}
    /\ attempt' = 1
    /\ lastErr' = 0
    /\ rpc' = "loop"
    /\ UNCHANGED <<notRetryVars, impl, maxRetries, opAlways, opK, calls, sleeps, rres, rBaseDelay, rWaits>>

\* the loop body with the wait not guarded by attempt < maxRetries
RetryAttempt_sleepsAfterLast ==
    /\ rpc = "loop"
    /\ attempt <= maxRetries
    /\ calls' = calls + 1
    /\ IF ~OpFails(calls + 1)
       THEN /\ rres' = [kind |-> "returned", val |-> "ok", err |-> 0]
            /\ rpc' = "done"
            /\ UNCHANGED <<lastErr, attempt>>
       ELSE /\ lastErr' = calls + 1
            /\ rpc' = "sleep"
            /\ UNCHANGED <<attempt, rres>>
    /\ UNCHANGED <<notRetryVars, impl, maxRetries, opAlways, opK, sleeps, rBaseDelay, rWaits>>

\* one pass of the loop body: return await fn(), or the catch block
RetryAttempt ==
    /\ rpc = "loop"
    /\ attempt <= maxRetries
    /\ calls' = calls + 1
    /\ IF ~OpFails(calls + 1)
       THEN /\ rres' = [kind |-> "returned", val |-> "ok", err |-> 0]
            /\ rpc' = "done"
            /\ UNCHANGED <<lastErr, attempt>>
       ELSE /\ lastErr' = calls + 1
            /\ IF attempt < maxRetries
               THEN rpc' = "sleep" /\ UNCHANGED attempt
               ELSE rpc' = "loop" /\ attempt' = attempt + 1
            /\ UNCHANGED rres
    /\ UNCHANGED <<notRetryVars, impl, maxRetries, opAlways, opK, sleeps, rBaseDelay, rWaits>>

\* await new Promise(res => setTimeout(res, delay)), then attempt++
RetrySleep(rnd) ==
    /\ rpc = "sleep"
    /\ sleeps' = sleeps + 1
    /\ rWaits' = Append(rWaits, IF impl = "scrapeWebsite" THEN LinearWait(attempt)
                                 ELSE BackoffDelay(rBaseDelay, attempt, rnd))
    /\ attempt' = attempt + 1
    /\ rpc' = "loop"
    /\ UNCHANGED <<notRetryVars, impl, maxRetries, opAlways, opK, calls, lastErr, rres, rBaseDelay>>

\* throw lastErr
RetryThrow ==
    /\ rpc = "loop"
    /\ attempt > maxRetries
    /\ rres' = [kind |-> "thrown", val |-> Undefined,
                err |-> IF impl = "scrapeWebsite" /\ lastErr = 0 THEN NewError ELSE lastErr]
    /\ rpc' = "done"
    /\ UNCHANGED <<notRetryVars, impl, maxRetries, opAlways, opK, attempt, calls, sleeps, lastErr, rBaseDelay, rWaits>>

\* the RetryService implementation, called with the same operation
RetryServiceCall ==
    /\ rpc = "start"
    /\ impl = "RetryService"
    /\ LET r == RetryService_retryWithBackoff([threw |-> OpFails(1), value |-> "ok"], maxRetries, 0)
       IN /\ rres' = [kind |-> IF r.threw THEN "thrown" ELSE "returned", val |-> r.value, err |-> 0]
          /\ calls' = calls + r.calls
          /\ sleeps' = sleeps + r.sleeps
    /\ rpc' = "done"
    /\ UNCHANGED <<notRetryVars, impl, maxRetries, opAlways, opK, attempt, lastErr, rBaseDelay, rWaits>>

(***************************************************************************)
(* validateUrl.  A string is a sequence of tokens: a scheme prefix, a      *)
(* whitespace character, or a run of other characters.                     *)
(***************************************************************************)
SP == " "
Schemes == {"http://", "https://"}
HostTokens == {"a.com"}
PathTokens == {"/p"}

Str(s) == [isString |-> TRUE, s |-> s]
NonString == [isString |-> FALSE, s |-> <<>>]

Inputs ==
    { NonString, Str(<<>>), Str(<<SP>>), Str(<<"a.com">>), Str(<<SP, "a.com", SP>>),
      Str(<<"https://", "a.com">>), Str(<<"http://", "a.com">>),
      Str(<<"a.com", "/p">>), Str(<<"a b">>), Str(<<"https://">>) }

RECURSIVE TrimStart(_)
TrimStart(s) == IF s /= <<>> /\ Head(s) = SP THEN TrimStart(Tail(s)) ELSE s

RECURSIVE TrimEnd(_)
TrimEnd(s) == IF s /= <<>> /\ s[Len(s)] = SP THEN TrimEnd(SubSeq(s, 1, Len(s) - 1)) ELSE s

\* String.prototype.trim
Trim(s) == TrimEnd(TrimStart(s))

\* String.prototype.startsWith, for a scheme prefix
StartsWith(s, p) == s /= <<>> /\ Head(s) = p

\* new URL(normalized) does not throw: a scheme, then a host without
\* forbidden characters, then any path; a space is allowed in the path only
URLParses(s) ==
    /\ Len(s) >= 2
    /\ s[1] \in Schemes
    /\ s[2] \in HostTokens
    /\ \A i \in 3..Len(s) :
          \/ s[i] \in PathTokens \cup HostTokens
          \/ s[i] = SP /\ \E j \in 3..(i - 1) : s[j] \in PathTokens

\* validateUrl without the new URL(normalized) check
validateUrl_unparsed(url) ==
    IF ~url.isString \/ url.s = <<>>
    THEN [ok |-> FALSE, category |-> "invalid", value |-> <<>>]
    ELSE LET trimmed == Trim(url.s)
         IN [ok |-> TRUE, category |-> "none",
             value |-> IF ~StartsWith(trimmed, "http://") /\ ~StartsWith(trimmed, "https://")
                       THEN <<"https://">> \o trimmed
                       ELSE trimmed]

\* validateUrl with https:// prepended whatever the string starts with
validateUrl_alwaysPrefixed(url) ==
    IF ~url.isString \/ url.s = <<>>
    THEN [ok |-> FALSE, category |-> "invalid", value |-> <<>>]
    ELSE LET normalized == <<"https://">> \o Trim(url.s)
         IN IF Len(normalized) >= 2 /\ normalized[Len(normalized)] \in HostTokens \cup PathTokens
            THEN [ok |-> TRUE, category |-> "none", value |-> normalized]
            ELSE [ok |-> FALSE, category |-> "invalid", value |-> <<>>]

validateUrl(url) ==
    IF ~url.isString \/ url.s = <<>>
    THEN [ok |-> FALSE, category |-> "invalid", value |-> <<>>]
    ELSE LET trimmed == Trim(url.s)
             normalized == IF ~StartsWith(trimmed, "http://") /\ ~StartsWith(trimmed, "https://")
                           THEN <<"https://">> \o trimmed
                           ELSE trimmed
         IN IF URLParses(normalized)
            THEN [ok |-> TRUE, category |-> "none", value |-> normalized]
            ELSE [ok |-> FALSE, category |-> "invalid", value |-> <<>>]

Urls == { validateUrl(i).value : i \in { j \in Inputs : validateUrl(j).ok } }

(***************************************************************************)
(* UnifiedScraper with the legacy ScrapeCache.                             *)
(***************************************************************************)
Absent == "absent"

NoOutcome == [kind |-> "pending", value |-> Undefined, category |-> "none", err |-> "none"]
Returned(v) == [kind |-> "returned", value |-> v, category |-> "none", err |-> "none"]
Thrown(cat, e) == [kind |-> "thrown", value |-> Undefined, category |-> cat, err |-> e]
NoPrev == [url |-> <<>>, kind |-> "none", value |-> Undefined]

\* ScrapeCache.get: the stored value when the key is present, else null
ScrapeCache_get(c, url) == IF c[url] /= Absent THEN c[url] ELSE Null

\* ScrapeCache.set that stores nothing
ScrapeCache_set_dropped(c, url, data) == c

\* ScrapeCache.set
ScrapeCache_set(c, url, data) == [c EXCEPT ![url] = data]

\* processor/CheerioScrapeService.js: the body is empty, the promise
\* resolves with undefined and nothing is fetched
scrapeWithCheerio(url, n) == [threw |-> FALSE, value |-> Undefined, err |-> "none"]

\* processor/PlaywrightScrapeService.js: likewise
scrapeWithPlaywright(url, n) == [threw |-> FALSE, value |-> Undefined, err |-> "none"]

ScrapeInit ==
    /\ usePlaywright \in BOOLEAN
    /\ retries \in 0..MaxRetries
    /\ baseDelay \in {0, BaseDelayMs}
    /\ cache = [u \in Urls |-> Absent]
    /\ pc = "idle"
    /\ input = NonString
    /\ normalizedUrl = <<>>
    /\ outcome = NoOutcome
    /\ robots = "unknown"
    /\ cacheHit = FALSE
    /\ dispatched = FALSE
    /\ result = Undefined
    /\ robotsFetches = 0
    /\ waits = 0
    /\ cacheGets = 0
    /\ cacheSets = 0
    /\ staticCalls = 0
    /\ staticFails = 0
    /\ renderCalls = 0
    /\ renderFails = 0
    /\ backoffSleeps = 0
    /\ cacheAtStart = [u \in Urls |-> Absent]
    /\ callNo = 0
    /\ prev = NoPrev
    /\ fetchesTotal = 0
    /\ extWrites = 0

ScrapeParked ==
    /\ usePlaywright = FALSE
    /\ retries = 0
    /\ baseDelay = 0
    /\ cache = [u \in Urls |-> Absent]
    /\ pc = "parked"
    /\ input = NonString
    /\ normalizedUrl = <<>>
    /\ outcome = NoOutcome
    /\ robots = "unknown"
    /\ cacheHit = FALSE
    /\ dispatched = FALSE
    /\ result = Undefined
    /\ robotsFetches = 0
    /\ waits = 0
    /\ cacheGets = 0
    /\ cacheSets = 0
    /\ staticCalls = 0
    /\ staticFails = 0
    /\ renderCalls = 0
    /\ renderFails = 0
    /\ backoffSleeps = 0
    /\ cacheAtStart = [u \in Urls |-> Absent]
    /\ callNo = 0
    /\ prev = NoPrev
    /\ fetchesTotal = 0
    /\ extWrites = 0

config == <<usePlaywright, retries, baseDelay>>
counters == <<robotsFetches, waits, cacheGets, cacheSets, staticCalls, staticFails,
              renderCalls, renderFails, backoffSleeps, fetchesTotal>>

\* scrape(url) up to its first await: const normalizedUrl = validateUrl(url)
StartScrape(i) ==
    /\ pc = "idle"
    /\ callNo < MaxCalls
    /\ callNo' = callNo + 1
    /\ input' = i
    /\ robots' = "unknown"
    /\ cacheHit' = FALSE
    /\ dispatched' = FALSE
    /\ result' = Undefined
    /\ robotsFetches' = 0
    /\ waits' = 0
    /\ cacheGets' = 0
    /\ cacheSets' = 0
    /\ staticCalls' = 0
    /\ staticFails' = 0
    /\ renderCalls' = 0
    /\ renderFails' = 0
    /\ backoffSleeps' = 0
    /\ cacheAtStart' = cache
    /\ LET v == validateUrl(i)
       IN IF v.ok
          THEN /\ normalizedUrl' = v.value
               /\ outcome' = NoOutcome
               /\ pc' = "robots"
          ELSE /\ normalizedUrl' = <<>>
               /\ outcome' = Thrown(v.category, "validateUrl")
               /\ pc' = "done"
    /\ UNCHANGED <<notScrapeVars, config, cache, prev, fetchesTotal, extWrites>>

\* the robots answer fetched but not acted on
RobotsCheck_ignored(allowed) ==
    /\ pc = "robots"
    /\ robotsFetches' = robotsFetches + 1
    /\ robots' = IF allowed THEN "allowed" ELSE "disallowed"
    /\ outcome' = outcome
    /\ pc' = IF baseDelay > 0 THEN "delay" ELSE "cacheGet"
    /\ UNCHANGED <<notScrapeVars, config, cache, input, normalizedUrl, cacheHit, dispatched, result, waits,
                   cacheGets, cacheSets, staticCalls, staticFails, renderCalls, renderFails,
                   backoffSleeps, cacheAtStart, callNo, prev, fetchesTotal, extWrites>>

\* const allowed = await isAllowedByRobots(normalizedUrl); if (!allowed) throw ...
RobotsCheck(allowed) ==
    /\ pc = "robots"
    /\ robotsFetches' = robotsFetches + 1
    /\ robots' = IF allowed THEN "allowed" ELSE "disallowed"
    /\ IF ~allowed
       THEN /\ outcome' = Thrown("robots", "robots")
            /\ pc' = "done"
       ELSE /\ outcome' = outcome
            /\ pc' = IF baseDelay > 0 THEN "delay" ELSE "cacheGet"
    /\ UNCHANGED <<notScrapeVars, config, cache, input, normalizedUrl, cacheHit, dispatched, result, waits,
                   cacheGets, cacheSets, staticCalls, staticFails, renderCalls, renderFails,
                   backoffSleeps, cacheAtStart, callNo, prev, fetchesTotal, extWrites>>

\* the delay awaited a second time
RateLimitDelay_twice ==
    /\ pc = "delay"
    /\ waits' = waits + 2
    /\ pc' = "cacheGet"
    /\ UNCHANGED <<notScrapeVars, config, cache, input, normalizedUrl, outcome, robots, cacheHit, dispatched,
                   result, robotsFetches, cacheGets, cacheSets, staticCalls, staticFails,
                   renderCalls, renderFails, backoffSleeps, cacheAtStart, callNo, prev,
                   fetchesTotal, extWrites>>

\* await delay(this.baseDelay)
RateLimitDelay ==
    /\ pc = "delay"
    /\ waits' = waits + 1
    /\ pc' = "cacheGet"
    /\ UNCHANGED <<notScrapeVars, config, cache, input, normalizedUrl, outcome, robots, cacheHit, dispatched,
                   result, robotsFetches, cacheGets, cacheSets, staticCalls, staticFails,
                   renderCalls, renderFails, backoffSleeps, cacheAtStart, callNo, prev,
                   fetchesTotal, extWrites>>

\* const cached = await this.cache.get(normalizedUrl); if (cached) return cached
CacheLookup ==
    /\ pc = "cacheGet"
    /\ cacheGets' = cacheGets + 1
    /\ LET cached == ScrapeCache_get(cache, normalizedUrl)
       IN IF Truthy(cached)
          THEN /\ outcome' = Returned(cached)
               /\ cacheHit' = TRUE
               /\ pc' = "done"
          ELSE /\ outcome' = outcome
               /\ cacheHit' = FALSE
               /\ pc' = "dispatch"
    /\ UNCHANGED <<notScrapeVars, config, cache, input, normalizedUrl, robots, dispatched, result,
                   robotsFetches, waits, cacheSets, staticCalls, staticFails, renderCalls,
                   renderFails, backoffSleeps, cacheAtStart, callNo, prev, fetchesTotal,
                   extWrites>>

\* the try block up to the resolution of retryWithBackoff, and the catch
\* blocks: the static strategy under retryWithBackoff, then, if that
\* rejected and usePlaywright is set, the rendering strategy under
\* retryWithBackoff
Dispatch ==
    /\ pc = "dispatch"
    /\ dispatched' = TRUE
    /\ LET s == RetryService_retryWithBackoff(scrapeWithCheerio(normalizedUrl, retries),
                                              retries, baseDelay)
           fallback == s.threw /\ usePlaywright
           p == RetryService_retryWithBackoff(scrapeWithPlaywright(normalizedUrl, retries),
                                              retries, baseDelay)
       IN /\ staticCalls' = staticCalls + s.calls
          /\ staticFails' = staticFails + s.fails
          /\ renderCalls' = renderCalls + (IF fallback THEN p.calls ELSE 0)
          /\ renderFails' = renderFails + (IF fallback THEN p.fails ELSE 0)
          /\ backoffSleeps' = backoffSleeps + s.sleeps + (IF fallback THEN p.sleeps ELSE 0)
          /\ fetchesTotal' = fetchesTotal + s.calls + (IF fallback THEN p.calls ELSE 0)
          /\ IF ~s.threw
             THEN result' = s.value /\ outcome' = outcome /\ pc' = "cacheSet"
             ELSE IF ~usePlaywright
             THEN result' = result /\ outcome' = Thrown("strategy", "static") /\ pc' = "done"
             ELSE IF ~p.threw
             THEN result' = p.value /\ outcome' = outcome /\ pc' = "cacheSet"
             ELSE result' = result /\ outcome' = Thrown("strategy", "render") /\ pc' = "done"
    /\ UNCHANGED <<notScrapeVars, config, cache, input, normalizedUrl, robots, cacheHit, robotsFetches, waits,
                   cacheGets, cacheSets, cacheAtStart, callNo, prev, extWrites>>

\* await this.cache.set(normalizedUrl, result); return result
CacheWrite ==
    /\ pc = "cacheSet"
    /\ cache' = ScrapeCache_set(cache, normalizedUrl, result)
    /\ cacheSets' = cacheSets + 1
    /\ outcome' = Returned(result)
    /\ pc' = "done"
    /\ UNCHANGED <<notScrapeVars, config, input, normalizedUrl, robots, cacheHit, dispatched, result,
                   robotsFetches, waits, cacheGets, staticCalls, staticFails, renderCalls,
                   renderFails, backoffSleeps, cacheAtStart, callNo, prev, fetchesTotal,
                   extWrites>>

\* the caller receives the settled promise
Settle ==
    /\ pc = "done"
    /\ prev' = [url |-> normalizedUrl, kind |-> outcome.kind, value |-> outcome.value]
    /\ pc' = "idle"
    /\ UNCHANGED <<notScrapeVars, config, cache, input, normalizedUrl, outcome, robots, cacheHit, dispatched,
                   result, counters, cacheAtStart, callNo, extWrites>>

\* another owner of the injected cache object stores a record in it
ExternalSet(u, r) ==
    /\ pc = "idle"
    /\ extWrites < MaxExtWrites
    /\ extWrites' = extWrites + 1
    /\ cache' = ScrapeCache_set(cache, u, r)
    /\ UNCHANGED <<notScrapeVars, config, pc, input, normalizedUrl, outcome, robots, cacheHit, dispatched,
                   result, counters, cacheAtStart, callNo, prev>>

(***************************************************************************)
(* MemoryCache.  The Map is a sequence of entries in insertion order.      *)
(***************************************************************************)
\* the keys: two URLs and the empty string, a key that is falsy in JavaScript
MKeys == {"", "u1", "u2"}
MData == {"d1", "d2"}
NoOp == [op |-> "none", url |-> "", data |-> Null, ret |-> Null]

\* Map.prototype.has
Has(c, url) == \E i \in 1..Len(c) : c[i].key = url

\* Map.prototype.get, for a key that is present
Entry(c, url) == c[CHOOSE i \in 1..Len(c) : c[i].key = url]

\* Map.prototype.delete
Delete(c, url) == SelectSeq(c, LAMBDA e : e.key /= url)

\* Map.prototype.set: a present key keeps its place, a new key goes last
Put(c, e) ==
    IF Has(c, e.key)
    THEN [i \in 1..Len(c) |-> IF c[i].key = e.key THEN e ELSE c[i]]
    ELSE Append(c, e)

\* the loop of set that finds the eviction victim: the first entry, in
\* insertion order, whose lastAccess is strictly below all earlier ones
Oldest(c) ==
    LET i == CHOOSE j \in 1..Len(c) :
                 /\ \A k \in 1..Len(c) : c[j].lastAccess <= c[k].lastAccess
                 /\ \A k \in 1..(j - 1) : c[k].lastAccess > c[j].lastAccess
    IN c[i].key

\* "if (oldest)": the victim is deleted only when its key is truthy
KeyTruthy(k) == k /= ""

\* the eviction step of set, taken when the cache is full
Evict(c) == IF KeyTruthy(Oldest(c)) THEN Delete(c, Oldest(c)) ELSE c

\* the TTL test with the age counted from the last access
Expired_sinceLastAccess(e, t, life) == life /= 0 /\ t - e.lastAccess > life

\* the TTL test of get
Expired(e, t, life) == life /= 0 /\ t - e.timestamp > life

\* MemoryCache.get: the cache afterwards, the value returned, hit or miss
MemoryCache_get(c, url, t, life) ==
    IF ~Has(c, url)
    THEN [cache |-> c, ret |-> Null, hit |-> FALSE]
    ELSE LET entry == Entry(c, url)
         IN IF Expired(entry, t, life)
            THEN [cache |-> Delete(c, url), ret |-> Null, hit |-> FALSE]
            ELSE [cache |-> Put(c, [entry EXCEPT !.accessCount = @ + 1, !.lastAccess = t]),
                  ret |-> entry.data, hit |-> TRUE]

\* PersistentCache.get on the same Map of entries: the cache afterwards, the
\* value returned, hit or miss, and whether the call set the dirty flag
PersistentCache_get(c, url, t, life) ==
    IF ~Has(c, url)
    THEN [cache |-> c, ret |-> Null, hit |-> FALSE, dirtied |-> FALSE]
    ELSE LET entry == Entry(c, url)
         IN IF life /= 0 /\ t - entry.timestamp > life
            THEN [cache |-> Delete(c, url), ret |-> Null, hit |-> FALSE, dirtied |-> TRUE]
            ELSE [cache |-> Put(c, [entry EXCEPT !.accessCount = @ + 1, !.lastAccess = t]),
                  ret |-> entry.data, hit |-> TRUE, dirtied |-> FALSE]

\* set with the eviction test reduced to "the cache is full"
MemoryCache_set_evictsOnUpdate(c, url, data, t, size) ==
    LET kept == IF Len(c) >= size THEN Evict(c) ELSE c
    IN Put(kept, [key |-> url, data |-> data, timestamp |-> t, accessCount |-> 0,
                  lastAccess |-> t])

\* MemoryCache.set: the cache afterwards
MemoryCache_set(c, url, data, t, size) ==
    LET kept == IF Len(c) >= size /\ ~Has(c, url) THEN Evict(c) ELSE c
    IN Put(kept, [key |-> url, data |-> data, timestamp |-> t, accessCount |-> 0,
                  lastAccess |-> t])

MemInit ==
    /\ mcache = <<>>
    /\ maxSize \in 1..MaxSize
    /\ ttl \in 0..2
    /\ hits = 0
    /\ misses = 0
    /\ now = 1
    /\ lastOp = NoOp
    /\ opCount = 0

MemParked ==
    /\ mcache = <<>>
    /\ maxSize = 1
    /\ ttl = 0
    /\ hits = 0
    /\ misses = 0
    /\ now = 1
    /\ lastOp = NoOp
    /\ opCount = MaxOps

MGet(url) ==
    /\ opCount < MaxOps
    /\ opCount' = opCount + 1
    /\ LET g == MemoryCache_get(mcache, url, now, ttl)
       IN /\ mcache' = g.cache
          /\ hits' = IF g.hit THEN hits + 1 ELSE hits
          /\ misses' = IF g.hit THEN misses ELSE misses + 1
          /\ lastOp' = [op |-> "get", url |-> url, data |-> Null, ret |-> g.ret]
    /\ UNCHANGED <<notMemVars, maxSize, ttl, now>>

MSet(url, data) ==
    /\ opCount < MaxOps
    /\ opCount' = opCount + 1
    /\ mcache' = MemoryCache_set(mcache, url, data, now, maxSize)
    /\ lastOp' = [op |-> "set", url |-> url, data |-> data, ret |-> Null]
    /\ UNCHANGED <<notMemVars, maxSize, ttl, hits, misses, now>>

MClear ==
    /\ opCount < MaxOps
    /\ opCount' = opCount + 1
    /\ mcache' = <<>>
    /\ hits' = 0
    /\ misses' = 0
    /\ lastOp' = [op |-> "clear", url |-> "", data |-> Null, ret |-> Null]
    /\ UNCHANGED <<notMemVars, maxSize, ttl, now>>

\* time passes between two calls
Tick ==
    /\ opCount < MaxOps
    /\ now < MaxTime
    /\ now' = now + 1
    /\ UNCHANGED <<notMemVars, mcache, maxSize, ttl, hits, misses, lastOp, opCount>>


(***************************************************************************)
(* PersistentScrapeCache: a bounded Map in front of a key-value store.     *)
(* Calls are awaited one after the other.  _sanitizeKey is one-to-one, so  *)
(* the store is indexed by the URL.                                        *)
(***************************************************************************)
KvUrls == {"u1", "u2"}
\* the number 0, a value that is falsy in JavaScript
Zero == "0"
KvValues == Records \cup {Zero}

\* _addToMemory: Map.set, then the first key goes when the Map is too large
addToMemory(mem, url, data) ==
    LET m == Put(mem, [key |-> url, value |-> data])
    IN IF Len(m) > MaxMemorySize THEN Delete(m, m[1].key) ELSE m

\* PersistentScrapeCache.get: the memory layer afterwards and the value
PersistentScrapeCache_get(mem, store, url) ==
    IF Has(mem, url)
    THEN [memory |-> mem, ret |-> Entry(mem, url).value]
    ELSE LET value == store[url]
         IN IF Truthy(value)
            THEN [memory |-> addToMemory(mem, url, value), ret |-> value]
            ELSE [memory |-> mem, ret |-> Null]

KvInit ==
    /\ memoryCache = <<>>
    /\ kvStore = [u \in KvUrls |-> Null]
    /\ kvLastSet = [u \in KvUrls |-> Null]
    /\ kvLastOp = NoOp
    /\ kvOps = 0

KvParked ==
    /\ memoryCache = <<>>
    /\ kvStore = [u \in KvUrls |-> Null]
    /\ kvLastSet = [u \in KvUrls |-> Null]
    /\ kvLastOp = NoOp
    /\ kvOps = MaxKvOps

\* await cache.get(url)
KvGet(url) ==
    /\ kvOps < MaxKvOps
    /\ kvOps' = kvOps + 1
    /\ LET g == PersistentScrapeCache_get(memoryCache, kvStore, url)
       IN /\ memoryCache' = g.memory
          /\ kvLastOp' = [op |-> "get", url |-> url, data |-> Null, ret |-> g.ret]
    /\ UNCHANGED <<notKvVars, kvStore, kvLastSet>>

\* await cache.set(url, data)
KvSet(url, data) ==
    /\ kvOps < MaxKvOps
    /\ kvOps' = kvOps + 1
    /\ kvStore' = [kvStore EXCEPT ![url] = data]
    /\ memoryCache' = addToMemory(memoryCache, url, data)
    /\ kvLastSet' = [kvLastSet EXCEPT ![url] = data]
    /\ kvLastOp' = [op |-> "set", url |-> url, data |-> data, ret |-> Null]
    /\ UNCHANGED notKvVars


(***************************************************************************)
(* PersistentCache: a Map saved to and loaded from cacheDir/cache.json.    *)
(* Calls are awaited one after the other; hits and misses are left out.    *)
(***************************************************************************)
DiskUrls == {"u1", "u2"}
NoCall == [op |-> "none", at |-> 0, first |-> FALSE]
NoFile == [exists |-> FALSE, entries |-> <<>>]

\* the record of a call: what, when, and whether it is the instance's first
Call(op, last, t) == [op |-> op, at |-> t, first |-> last.op \in {"none", "new"}]

\* the loop of init over the parsed file: expired entries are skipped, the
\* others go into the Map
LoadEntries(c, file, t, life) ==
    LET kept == SelectSeq(file, LAMBDA e : ~(life /= 0 /\ t - e.timestamp > life))
        RECURSIVE Load(_, _)
        Load(m, i) == IF i > Len(kept) THEN m ELSE Load(Put(m, kept[i]), i + 1)
    IN Load(c, 1)

\* the body of save: nothing when the instance is clean; else the whole Map
\* is written, and a failed write (cacheDir does not exist) is only warned
\* about and leaves the dirty flag set
PersistentCache_save(c, dirty, dir, file) ==
    IF ~dirty THEN [file |-> file, dirty |-> dirty]
    ELSE IF dir THEN [file |-> [exists |-> TRUE, entries |-> c], dirty |-> FALSE]
    ELSE [file |-> file, dirty |-> TRUE]

DiskInit ==
    /\ pcCache = <<>>
    /\ pcDirty = FALSE
    /\ pcTtl \in 0..2
    /\ pcGen = 1
    /\ dirExists \in BOOLEAN
    /\ cacheFile = NoFile
    /\ pcNow = 1
    /\ pcAtSave = <<>>
    /\ pcLast = NoCall
    /\ pcOps = 0

DiskParked ==
    /\ pcCache = <<>>
    /\ pcDirty = FALSE
    /\ pcTtl = 0
    /\ pcGen = 1
    /\ dirExists = FALSE
    /\ cacheFile = NoFile
    /\ pcNow = 1
    /\ pcAtSave = <<>>
    /\ pcLast = NoCall
    /\ pcOps = MaxDiskOps

\* await cache.init(): mkdir, then the file is read if there is one
DiskInitCall ==
    /\ pcOps < MaxDiskOps
    /\ pcOps' = pcOps + 1
    /\ dirExists' = TRUE
    /\ pcCache' = IF cacheFile.exists
                  THEN LoadEntries(pcCache, cacheFile.entries, pcNow, pcTtl)
                  ELSE pcCache
    /\ pcLast' = Call("init", pcLast, pcNow)
    /\ UNCHANGED <<notDiskVars, pcDirty, pcTtl, pcGen, cacheFile, pcNow, pcAtSave>>

DiskGet(url) ==
    /\ pcOps < MaxDiskOps
    /\ pcOps' = pcOps + 1
    /\ LET g == PersistentCache_get(pcCache, url, pcNow, pcTtl)
       IN /\ pcCache' = g.cache
          /\ pcDirty' = (pcDirty \/ g.dirtied)
    /\ pcLast' = Call("get", pcLast, pcNow)
    /\ UNCHANGED <<notDiskVars, pcTtl, pcGen, dirExists, cacheFile, pcNow, pcAtSave>>

DiskSet(url, data) ==
    /\ pcOps < MaxDiskOps
    /\ pcOps' = pcOps + 1
    /\ pcCache' = Put(pcCache, [key |-> url, data |-> data, timestamp |-> pcNow,
                                accessCount |-> 0, lastAccess |-> pcNow])
    /\ pcDirty' = TRUE
    /\ pcLast' = Call("set", pcLast, pcNow)
    /\ UNCHANGED <<notDiskVars, pcTtl, pcGen, dirExists, cacheFile, pcNow, pcAtSave>>

\* await cache.save()
DiskSave ==
    /\ pcOps < MaxDiskOps
    /\ pcOps' = pcOps + 1
    /\ LET w == PersistentCache_save(pcCache, pcDirty, dirExists, cacheFile)
       IN /\ cacheFile' = w.file
          /\ pcDirty' = w.dirty
    /\ pcAtSave' = pcCache
    /\ pcLast' = Call("save", pcLast, pcNow)
    /\ UNCHANGED <<notDiskVars, pcCache, pcTtl, pcGen, dirExists, pcNow>>

\* await cache.clear(): the Map is emptied and save() is called
DiskClear ==
    /\ pcOps < MaxDiskOps
    /\ pcOps' = pcOps + 1
    /\ pcCache' = <<>>
    /\ LET w == PersistentCache_save(<<>>, TRUE, dirExists, cacheFile)
       IN /\ cacheFile' = w.file
          /\ pcDirty' = w.dirty
    /\ pcAtSave' = <<>>
    /\ pcLast' = Call("clear", pcLast, pcNow)
    /\ UNCHANGED <<notDiskVars, pcTtl, pcGen, dirExists, pcNow>>

\* new PersistentCache({cacheDir, ttl}) on the same directory, once the
\* earlier instance has completed a save()
DiskNewInstance(life) ==
    /\ pcOps < MaxDiskOps
    /\ pcGen < MaxInstances
    /\ pcLast.op = "save"
    /\ pcGen' = pcGen + 1
    /\ pcCache' = <<>>
    /\ pcDirty' = FALSE
    /\ pcTtl' = life
    /\ pcLast' = [op |-> "new", at |-> pcNow, first |-> FALSE]
    /\ UNCHANGED <<notDiskVars, dirExists, cacheFile, pcNow, pcAtSave, pcOps>>

\* time passes between two calls
DiskTick ==
    /\ pcOps < MaxDiskOps
    /\ pcNow < MaxTime
    /\ pcNow' = pcNow + 1
    /\ UNCHANGED <<notDiskVars, pcCache, pcDirty, pcTtl, pcGen, dirExists, cacheFile,
                   pcAtSave, pcLast, pcOps>>


(***************************************************************************)
(* processUrls (ActorService): the URLs are processed one after the other  *)
(* by one UnifiedScraper with its own ScrapeCache.                         *)
(***************************************************************************)
PuInputs == {Str(<<"https://", "a.com">>), Str(<<"a.com", "/p">>), Str(<<"a b">>)}
UrlLists == UNION {[1..n -> PuInputs] : n \in 0..MaxUrls}

\* how one call of UnifiedScraper.scrape settles, given the robots answer and
\* the cache of the scraper
UnifiedScraper_scrape(i, allowed, c, usePw, n, delayMs) ==
    LET v == validateUrl(i)
    IN IF ~v.ok THEN Thrown(v.category, "validateUrl")
       ELSE IF ~allowed THEN Thrown("robots", "robots")
       ELSE IF Truthy(ScrapeCache_get(c, v.value)) THEN Returned(ScrapeCache_get(c, v.value))
       ELSE LET s == RetryService_retryWithBackoff(scrapeWithCheerio(v.value, n), n, delayMs)
                p == RetryService_retryWithBackoff(scrapeWithPlaywright(v.value, n), n, delayMs)
            IN IF ~s.threw THEN Returned(s.value)
               ELSE IF ~usePw THEN Thrown("strategy", "static")
               ELSE IF ~p.threw THEN Returned(p.value)
               ELSE Thrown("strategy", "render")

\* the scraper's cache after that call: written on a miss that returns
CacheAfterScrape(i, allowed, c, usePw, n, delayMs) ==
    LET v == validateUrl(i)
        o == UnifiedScraper_scrape(i, allowed, c, usePw, n, delayMs)
    IN IF v.ok /\ allowed /\ ~Truthy(ScrapeCache_get(c, v.value)) /\ o.kind = "returned"
       THEN ScrapeCache_set(c, v.value, o.value)
       ELSE c

OutcomeRecord(idx, url, ok) == [idx |-> idx, url |-> url, success |-> ok]

\* the end of one pass of the loop
NextUrl(i) == IF i < Len(puUrls) THEN "scrape" ELSE "done"

PuInit ==
    /\ puUrls \in UrlLists
    /\ puConfig \in [usePlaywright : BOOLEAN]
    /\ puServer \in BOOLEAN
    /\ puCache = [u \in Urls |-> Absent]
    /\ puI = 1
    /\ puPc = IF Len(puUrls) > 0 THEN "scrape" ELSE "done"
    /\ puInCatch = FALSE
    /\ puData = Undefined
    /\ puErr = "none"
    /\ puResults = <<>>
    /\ puEvents = <<>>

PuParked ==
    /\ puUrls = <<>>
    /\ puConfig = [usePlaywright |-> FALSE]
    /\ puServer = FALSE
    /\ puCache = [u \in Urls |-> Absent]
    /\ puI = 1
    /\ puPc = "done"
    /\ puInCatch = FALSE
    /\ puData = Undefined
    /\ puErr = "none"
    /\ puResults = <<>>
    /\ puEvents = <<>>

\* const scrapedData = await scraper.scrape(targetUrl)
PuScrape(allowed) ==
    /\ puPc = "scrape"
    /\ LET o == UnifiedScraper_scrape(puUrls[puI], allowed, puCache, puConfig.usePlaywright,
                                      3, 2000)
       IN /\ puCache' = CacheAfterScrape(puUrls[puI], allowed, puCache,
                                         puConfig.usePlaywright, 3, 2000)
          /\ IF o.kind = "returned"
             THEN puData' = o.value /\ puErr' = "none" /\ puPc' = "build"
             ELSE puData' = Undefined /\ puErr' = o.category /\ puPc' = "catch"
    /\ puInCatch' = FALSE
    /\ UNCHANGED <<notPuVars, puUrls, puConfig, puServer, puI, puResults, puEvents>>

\* the rest of the try block up to results.push(result): tags, markdown, note
\* and links.  tagExtractor.extract and markdownConverter.convert read
\* data.title, a TypeError when scrapedData is undefined; on a record each of
\* the steps may fail (ok = FALSE)
PuBuild(ok) ==
    /\ puPc = "build"
    /\ IF puData \in Records /\ ok
       THEN /\ puResults' = Append(puResults, OutcomeRecord(puI, puUrls[puI], TRUE))
            /\ puErr' = "none"
            /\ IF puServer
               THEN puPc' = "broadcast" /\ puI' = puI
               ELSE puPc' = NextUrl(puI) /\ puI' = puI + 1
       ELSE /\ puResults' = puResults
            /\ puErr' = IF puData \in Records THEN "step" ELSE "TypeError"
            /\ puPc' = "catch"
            /\ puI' = puI
    /\ UNCHANGED <<notPuVars, puUrls, puConfig, puServer, puCache, puInCatch, puData, puEvents>>

\* catch (err): the failure record is pushed
PuCatch ==
    /\ puPc = "catch"
    /\ puInCatch' = TRUE
    /\ puResults' = Append(puResults, OutcomeRecord(puI, puUrls[puI], FALSE))
    /\ IF puServer
       THEN puPc' = "broadcast" /\ puI' = puI
       ELSE puPc' = NextUrl(puI) /\ puI' = puI + 1
    /\ UNCHANGED <<notPuVars, puUrls, puConfig, puServer, puCache, puData, puErr, puEvents>>

\* broadcast called twice with the record
PuBroadcast_twice(throws) ==
    /\ puPc = "broadcast"
    /\ puEvents' = puEvents \o <<puResults[Len(puResults)], puResults[Len(puResults)]>>
    /\ IF ~throws
       THEN puPc' = NextUrl(puI) /\ puI' = puI + 1 /\ puErr' = puErr
       ELSE puPc' = "rejected" /\ puI' = puI /\ puErr' = "broadcast"
    /\ UNCHANGED <<notPuVars, puUrls, puConfig, puServer, puCache, puInCatch, puData, puResults>>

\* resultsServer.broadcast(result): it is called with the record just pushed;
\* an exception it raises is caught when the call is in the try block and
\* leaves processUrls when the call is in the catch block
PuBroadcast(throws) ==
    /\ puPc = "broadcast"
    /\ puEvents' = Append(puEvents, puResults[Len(puResults)])
    /\ IF ~throws
       THEN puPc' = NextUrl(puI) /\ puI' = puI + 1 /\ puErr' = puErr
       ELSE IF puInCatch
       THEN puPc' = "rejected" /\ puI' = puI /\ puErr' = "broadcast"
       ELSE puPc' = "catch" /\ puI' = puI /\ puErr' = "broadcast"
    /\ UNCHANGED <<notPuVars, puUrls, puConfig, puServer, puCache, puInCatch, puData, puResults>>


(***************************************************************************)
(* scrapeMany (helpers): workers drain a shared queue, each through        *)
(* scrapeWebsiteWithFailover with a shared ScrapeCache.  JavaScript runs   *)
(* one task at a time: a step is the code between two awaits.  The entries *)
(* are non-empty URL strings, so "if (!config) break" is never taken.      *)
(***************************************************************************)
SmEntries == {"u1", "u2"}
\* the input lists, up to the renaming of the two URLs: the first entry is u1
EntryLists ==
    {l \in UNION {[1..n -> SmEntries] : n \in 0..MaxEntries} : Len(l) > 0 => l[1] = "u1"}
AllWorkers == 1..MaxWorkers

SmInit ==
    /\ smUrls \in EntryLists
    /\ smOpts \in [concurrency : 1..MaxWorkers, useCache : BOOLEAN, onProgress : BOOLEAN]
    /\ smQueue = [i \in 1..Len(smUrls) |-> i]
    /\ smResults = <<>>
    /\ smCache = [u \in SmEntries |-> Absent]
    /\ wPc = [w \in AllWorkers |-> IF w <= smOpts.concurrency THEN "new" ELSE "off"]
    /\ wCur = [w \in AllWorkers |-> 0]
    /\ wData = [w \in AllWorkers |-> Undefined]
    /\ smTaken = [i \in 1..Len(smUrls) |-> <<>>]

SmParked ==
    /\ smUrls = <<>>
    /\ smOpts = [concurrency |-> 1, useCache |-> TRUE, onProgress |-> FALSE]
    /\ smQueue = <<>>
    /\ smResults = <<>>
    /\ smCache = [u \in SmEntries |-> Absent]
    /\ wPc = [w \in AllWorkers |-> "off"]
    /\ wCur = [w \in AllWorkers |-> 0]
    /\ wData = [w \in AllWorkers |-> Undefined]
    /\ smTaken = [i \in 1..Len(smUrls) |-> <<>>]

\* the loop test and queue.shift(), read without removing the entry
SmTake_keepsEntry(w) ==
    /\ wPc[w] \in {"new", "loop"}
    /\ wPc[w] = "new" => \A v \in 1..(w - 1) : wPc[v] /= "new"
    /\ IF smQueue = <<>>
       THEN /\ wPc' = [wPc EXCEPT ![w] = "done"]
            /\ UNCHANGED <<smQueue, smTaken, wCur, wData>>
       ELSE /\ smQueue' = smQueue
            /\ smTaken' = [smTaken EXCEPT ![Head(smQueue)] = Append(@, w)]
            /\ wCur' = [wCur EXCEPT ![w] = Head(smQueue)]
            /\ wPc' = [wPc EXCEPT ![w] = "fetching"]
            /\ wData' = wData
    /\ UNCHANGED <<notSmVars, smUrls, smOpts, smResults, smCache>>

\* while (queue.length > 0) { const config = queue.shift(); ... and the call
\* of scrapeWebsiteWithFailover up to its first await: the cache is looked up,
\* a hit resolves the call, a miss starts a scraper.  The workers are spawned
\* in order, each running to its first await.
SmTake(w) ==
    /\ wPc[w] \in {"new", "loop"}
    /\ wPc[w] = "new" => \A v \in 1..(w - 1) : wPc[v] /= "new"
    /\ IF smQueue = <<>>
       THEN /\ wPc' = [wPc EXCEPT ![w] = "done"]
            /\ UNCHANGED <<smQueue, smTaken, wCur, wData>>
       ELSE LET idx == Head(smQueue)
                cached == IF smOpts.useCache THEN ScrapeCache_get(smCache, smUrls[idx])
                          ELSE Null
            IN /\ smQueue' = Tail(smQueue)
               /\ smTaken' = [smTaken EXCEPT ![idx] = Append(@, w)]
               /\ wCur' = [wCur EXCEPT ![w] = idx]
               /\ IF Truthy(cached)
                  THEN /\ wPc' = [wPc EXCEPT ![w] = "resume"]
                       /\ wData' = [wData EXCEPT ![w] = cached]
                  ELSE /\ wPc' = [wPc EXCEPT ![w] = "fetching"]
                       /\ wData' = wData
    /\ UNCHANGED <<notSmVars, smUrls, smOpts, smResults, smCache>>

\* the record a scraper resolves with
Scraped(url) == "rec1"

\* the workers have all been spawned: worker(i) runs to its first await
\* inside the for loop that creates the workers
Spawned == \A v \in AllWorkers : wPc[v] /= "new"

\* the scrapers a worker waits for settle: Playwright first when asked for,
\* Cheerio otherwise or when Playwright failed; no shared state is touched
\* between the two.  The first record obtained is written to the cache and
\* resolves the call (ok); when the Cheerio scraper fails too, the call is
\* rejected.
SmFetchSettles(w, ok) ==
    /\ Spawned
    /\ wPc[w] = "fetching"
    /\ LET url == smUrls[wCur[w]]
       IN IF ok
          THEN /\ wPc' = [wPc EXCEPT ![w] = "resume"]
               /\ wData' = [wData EXCEPT ![w] = Scraped(url)]
               /\ smCache' = IF smOpts.useCache
                             THEN ScrapeCache_set(smCache, url, Scraped(url))
                             ELSE smCache
          ELSE /\ wPc' = [wPc EXCEPT ![w] = "failed"]
               /\ UNCHANGED <<wData, smCache>>
    /\ UNCHANGED <<notSmVars, smUrls, smOpts, smQueue, smResults, wCur, smTaken>>

SmRecord(w, ok) == [idx |-> wCur[w], url |-> smUrls[wCur[w]], success |-> ok, workerId |-> w]

\* after the await: results.push(result); if (onProgress) onProgress(result),
\* in the try block for a resolved call and in the catch block for a rejected
\* one.  An onProgress that throws in the try block enters the catch block;
\* one that throws in the catch block rejects the worker.
SmPush(w, throws1, throws2) ==
    /\ Spawned
    /\ wPc[w] \in {"resume", "failed"}
    /\ IF wPc[w] = "resume"
       THEN IF smOpts.onProgress /\ throws1
            THEN /\ smResults' = smResults \o <<SmRecord(w, TRUE), SmRecord(w, FALSE)>>
                 /\ wPc' = [wPc EXCEPT ![w] = IF throws2 THEN "rejected" ELSE "loop"]
            ELSE /\ smResults' = Append(smResults, SmRecord(w, TRUE))
                 /\ wPc' = [wPc EXCEPT ![w] = "loop"]
       ELSE /\ smResults' = Append(smResults, SmRecord(w, FALSE))
            /\ wPc' = [wPc EXCEPT ![w] = IF smOpts.onProgress /\ throws1 THEN "rejected"
                                         ELSE "loop"]
    /\ UNCHANGED <<notSmVars, smUrls, smOpts, smQueue, smCache, wCur, wData, smTaken>>


(***************************************************************************)
(* Concurrent calls of UnifiedScraper.scrape for one URL on one scraper,   *)
(* and so on one cache.  A step is the code between two awaits.            *)
(***************************************************************************)
ScrapeCalls == 1..MaxConcurrent

CsInit ==
    /\ csConfig \in [usePlaywright : BOOLEAN, baseDelay : {0, BaseDelayMs}, retries : {3}]
    /\ csUrl \in {Str(<<"https://", "a.com">>), Str(<<"a.com">>), Str(<<"a.com", "/p">>)}
    /\ csCache = [u \in Urls |-> Absent]
    /\ csPc = [c \in ScrapeCalls |-> "start"]
    /\ csOut = [c \in ScrapeCalls |-> NoOutcome]
    /\ csResult = [c \in ScrapeCalls |-> Undefined]
    /\ csMissed = [c \in ScrapeCalls |-> FALSE]
    /\ csWrites = <<>>

CsParked ==
    /\ csConfig = [usePlaywright |-> FALSE, baseDelay |-> 0, retries |-> 3]
    /\ csUrl = Str(<<"https://", "a.com">>)
    /\ csCache = [u \in Urls |-> Absent]
    /\ csPc = [c \in ScrapeCalls |-> "done"]
    /\ csOut = [c \in ScrapeCalls |-> NoOutcome]
    /\ csResult = [c \in ScrapeCalls |-> Undefined]
    /\ csMissed = [c \in ScrapeCalls |-> FALSE]
    /\ csWrites = <<>>

\* validateUrl(url), then await isAllowedByRobots(normalizedUrl)
CsRobots(c, allowed) ==
    /\ csPc[c] = "start"
    /\ IF ~allowed
       THEN /\ csOut' = [csOut EXCEPT ![c] = Thrown("robots", "robots")]
            /\ csPc' = [csPc EXCEPT ![c] = "done"]
       ELSE /\ csOut' = csOut
            /\ csPc' = [csPc EXCEPT ![c] = IF csConfig.baseDelay > 0 THEN "delay"
                                           ELSE "cacheGet"]
    /\ UNCHANGED <<notCsVars, csConfig, csUrl, csCache, csResult, csMissed, csWrites>>

\* await delay(this.baseDelay)
CsDelay(c) ==
    /\ csPc[c] = "delay"
    /\ csPc' = [csPc EXCEPT ![c] = "cacheGet"]
    /\ UNCHANGED <<notCsVars, csConfig, csUrl, csCache, csOut, csResult, csMissed, csWrites>>

\* const cached = await this.cache.get(normalizedUrl); if (cached) return cached
CsLookup(c) ==
    /\ csPc[c] = "cacheGet"
    /\ LET cached == ScrapeCache_get(csCache, validateUrl(csUrl).value)
       IN IF Truthy(cached)
          THEN /\ csOut' = [csOut EXCEPT ![c] = Returned(cached)]
               /\ csPc' = [csPc EXCEPT ![c] = "done"]
               /\ csMissed' = csMissed
          ELSE /\ csOut' = csOut
               /\ csPc' = [csPc EXCEPT ![c] = "dispatch"]
               /\ csMissed' = [csMissed EXCEPT ![c] = TRUE]
    /\ UNCHANGED <<notCsVars, csConfig, csUrl, csCache, csResult, csWrites>>

\* the strategies under retryWithBackoff, as in Dispatch
CsDispatch(c) ==
    /\ csPc[c] = "dispatch"
    /\ LET url == validateUrl(csUrl).value
           s == RetryService_retryWithBackoff(scrapeWithCheerio(url, csConfig.retries),
                                              csConfig.retries, csConfig.baseDelay)
           p == RetryService_retryWithBackoff(scrapeWithPlaywright(url, csConfig.retries),
                                              csConfig.retries, csConfig.baseDelay)
       IN IF ~s.threw
          THEN /\ csResult' = [csResult EXCEPT ![c] = s.value]
               /\ csOut' = csOut
               /\ csPc' = [csPc EXCEPT ![c] = "cacheSet"]
          ELSE IF ~csConfig.usePlaywright
          THEN /\ csResult' = csResult
               /\ csOut' = [csOut EXCEPT ![c] = Thrown("strategy", "static")]
               /\ csPc' = [csPc EXCEPT ![c] = "done"]
          ELSE IF ~p.threw
          THEN /\ csResult' = [csResult EXCEPT ![c] = p.value]
               /\ csOut' = csOut
               /\ csPc' = [csPc EXCEPT ![c] = "cacheSet"]
          ELSE /\ csResult' = csResult
               /\ csOut' = [csOut EXCEPT ![c] = Thrown("strategy", "render")]
               /\ csPc' = [csPc EXCEPT ![c] = "done"]
    /\ UNCHANGED <<notCsVars, csConfig, csUrl, csCache, csMissed, csWrites>>

\* await this.cache.set(normalizedUrl, result); return result
CsWrite(c) ==
    /\ csPc[c] = "cacheSet"
    /\ csCache' = ScrapeCache_set(csCache, validateUrl(csUrl).value, csResult[c])
    /\ csWrites' = Append(csWrites, csResult[c])
    /\ csOut' = [csOut EXCEPT ![c] = Returned(csResult[c])]
    /\ csPc' = [csPc EXCEPT ![c] = "done"]
    /\ UNCHANGED <<notCsVars, csConfig, csUrl, csResult, csMissed>>


(***************************************************************************)
(* The rendering strategy: PlaywrightStrategy.scrape and the helper        *)
(* scrapeWebsitePlaywright, several calls at once.  A step is the code     *)
(* between two awaits.  A browser or context is named by the call and the  *)
(* attempt that opened it.                                                 *)
(***************************************************************************)
\* two calls at once
PwCalls == {1, 2}
PwUrls == {<<"https://", "a.com">>, <<"https://", "a.com", "/", "timeout">>}

NoErr == [type |-> "none", category |-> "none", msg |-> <<>>]
Err(type, msg) == [type |-> type, category |-> "none", msg |-> msg]
\* new ScraperError(message, category, url)
ScraperError(msg, category) == [type |-> "ScraperError", category |-> category, msg |-> msg]

\* String.prototype.includes, on token sequences
Includes(msg, token) == \E i \in 1..Len(msg) : msg[i] = token

\* what page.goto rejects with: the TimeoutError of an exceeded timeout, and
\* a network error, whose message names the URL
GotoTimeout == Err("TimeoutError", <<"page.goto: ", "Timeout", " 30000ms exceeded.">>)
GotoNetError(url) == Err("Error", <<"page.goto: ", "net::ERR_CONNECTION_REFUSED", " at ">> \o url)

\* setupPlaywrightStealth(page) ends with page.setViewportSize(...); a
\* BrowserContext has addInitScript but no setViewportSize
setupPlaywrightStealth(target) ==
    IF target = "page" THEN NoErr
    ELSE Err("TypeError", <<"page.setViewportSize", " is not a function">>)

\* pageError.message.includes('timeout') ? 'timeout' : 'network'
PageErrorCategory(err) == IF Includes(err.msg, "timeout") THEN "timeout" ELSE "network"

\* null, and the objects chromium.launch and browser.newContext resolve with
NoHandle == [kind |-> "null", owner |-> 0, attempt |-> 0]
Browser(c, n) == [kind |-> "browser", owner |-> c, attempt |-> n]
Context(c, n) == [kind |-> "context", owner |-> c, attempt |-> n]

NewCall ==
    [pc |-> "start", browser |-> NoHandle, context |-> NoHandle, attempt |-> 1, err |-> NoErr,
     out |-> "pending", value |-> Undefined, navigated |-> FALSE, idleFailed |-> FALSE,
     cause |-> "none"]

\* close() that leaves the contexts of a browser open
Close_leavesContexts(open, h) == open \ {h}

\* close() on a browser or a context; browser.close() closes the browser's
\* contexts with it
Close(open, h) ==
    IF h.kind = "browser" THEN open \ {h, Context(h.owner, h.attempt)} ELSE open \ {h}

PwInit ==
    /\ pwImpl \in {"PlaywrightStrategy", "scrapeWebsitePlaywright"}
    /\ pwOpts \in [enableStealth : BOOLEAN, blockWebSockets : BOOLEAN, retries : 1..MaxPwRetries]
    /\ pwImpl = "PlaywrightStrategy" => pwOpts.retries = 1
    /\ pwImpl = "scrapeWebsitePlaywright" => (pwOpts.enableStealth /\ pwOpts.blockWebSockets)
    /\ pwUrl \in PwUrls
    /\ pwCall = [c \in PwCalls |-> NewCall]
    /\ pwOpen = {}

PwParked ==
    /\ pwImpl = "PlaywrightStrategy"
    /\ pwOpts = [enableStealth |-> TRUE, blockWebSockets |-> TRUE, retries |-> 1]
    /\ pwUrl = <<"https://", "a.com">>
    /\ pwCall = [c \in PwCalls |-> [NewCall EXCEPT !.pc = "done"]]
    /\ pwOpen = {}

\* an exception of the step the call is at.  PlaywrightStrategy: the inner
\* catch wraps a page error, the outer catch wraps anything that is not a
\* ScraperError, then the finally block runs.  scrapeWebsitePlaywright: the
\* catch block of the attempt.
Throw(c, err, cause) ==
    IF pwImpl = "PlaywrightStrategy"
    THEN [pwCall[c] EXCEPT
            !.err = IF pwCall[c].pc \in {"goto", "extract"}
                    THEN ScraperError(err.msg, PageErrorCategory(err))
                    ELSE ScraperError(err.msg, "network"),
            !.cause = cause,
            !.pc = "closeContext"]
    ELSE [pwCall[c] EXCEPT !.err = err, !.cause = cause, !.pc = "catch"]

\* validateUrl(url); if (this.cache) { cached = this.cache.get(validUrl) ... }
PwStart(c, cached) ==
    /\ pwCall[c].pc = "start"
    /\ cached => pwImpl = "PlaywrightStrategy"
    /\ pwCall' = [pwCall EXCEPT ![c] =
                    IF cached
                    THEN [@ EXCEPT !.pc = "done", !.out = "returned", !.value = "rec2"]
                    ELSE [@ EXCEPT !.pc = "launch"]]
    /\ UNCHANGED <<notPwVars, pwImpl, pwOpts, pwUrl, pwOpen>>

\* browser = await chromium.launch(...)
PwLaunch(c, ok) ==
    /\ pwCall[c].pc = "launch"
    /\ IF ok
       THEN /\ pwOpen' = pwOpen \cup {Browser(c, pwCall[c].attempt)}
            /\ pwCall' = [pwCall EXCEPT ![c] =
                            [@ EXCEPT !.browser = Browser(c, pwCall[c].attempt), !.pc = "newContext",
                                      !.navigated = FALSE, !.idleFailed = FALSE, !.cause = "none"]]
       ELSE /\ pwOpen' = pwOpen
            /\ pwCall' = [pwCall EXCEPT ![c] = Throw(c, Err("Error", <<"browserType.launch: ", "failed">>), "launch")]
    /\ UNCHANGED <<notPwVars, pwImpl, pwOpts, pwUrl>>

\* context = await browser.newContext(...)
PwNewContext(c, ok) ==
    /\ pwCall[c].pc = "newContext"
    /\ IF ok
       THEN /\ pwOpen' = pwOpen \cup {Context(c, pwCall[c].attempt)}
            /\ pwCall' = [pwCall EXCEPT ![c] =
                            [@ EXCEPT !.context = Context(c, pwCall[c].attempt),
                                      !.pc = IF pwImpl = "scrapeWebsitePlaywright" THEN "newPage"
                                             ELSE IF pwOpts.enableStealth THEN "stealth"
                                             ELSE IF pwOpts.blockWebSockets THEN "blockWebSockets"
                                             ELSE "newPage"]]
       ELSE /\ pwOpen' = pwOpen
            /\ pwCall' = [pwCall EXCEPT ![c] = Throw(c, Err("Error", <<"browser.newContext: ", "failed">>), "newContext")]
    /\ UNCHANGED <<notPwVars, pwImpl, pwOpts, pwUrl>>

\* await setupPlaywrightStealth(context); await enhancedStealthMode(context)
PwStealth(c) ==
    /\ pwCall[c].pc = "stealth"
    /\ LET r == setupPlaywrightStealth("context")
       IN pwCall' = [pwCall EXCEPT ![c] =
                        IF r /= NoErr THEN Throw(c, r, "stealth")
                        ELSE [@ EXCEPT !.pc = IF pwOpts.blockWebSockets THEN "blockWebSockets"
                                              ELSE "newPage"]]
    /\ UNCHANGED <<notPwVars, pwImpl, pwOpts, pwUrl, pwOpen>>

\* await blockWebSockets(context)
PwBlockWebSockets(c, ok) ==
    /\ pwCall[c].pc = "blockWebSockets"
    /\ pwCall' = [pwCall EXCEPT ![c] =
                    IF ok THEN [@ EXCEPT !.pc = "newPage"]
                    ELSE Throw(c, Err("Error", <<"browserContext.route: ", "failed">>), "route")]
    /\ UNCHANGED <<notPwVars, pwImpl, pwOpts, pwUrl, pwOpen>>

\* const page = await context.newPage()
PwNewPage(c, ok) ==
    /\ pwCall[c].pc = "newPage"
    /\ pwCall' = [pwCall EXCEPT ![c] =
                    IF ok THEN [@ EXCEPT !.pc = "goto"]
                    ELSE Throw(c, Err("Error", <<"browserContext.newPage: ", "failed">>), "newPage")]
    /\ UNCHANGED <<notPwVars, pwImpl, pwOpts, pwUrl, pwOpen>>

\* await page.goto(validUrl, {waitUntil, timeout})
PwGoto(c, how) ==
    /\ pwCall[c].pc = "goto"
    /\ pwCall' = [pwCall EXCEPT ![c] =
                    CASE how = "ok" -> [@ EXCEPT !.pc = "idle", !.navigated = TRUE]
                      [] how = "timeout" -> Throw(c, GotoTimeout, "navTimeout")
                      [] OTHER -> Throw(c, GotoNetError(pwUrl), "navOther")]
    /\ UNCHANGED <<notPwVars, pwImpl, pwOpts, pwUrl, pwOpen>>

\* PlaywrightStrategy: await page.waitForLoadState('networkidle').catch(() => {})
\* scrapeWebsitePlaywright: await page.waitForLoadState('networkidle')
PwIdle(c, ok) ==
    /\ pwCall[c].pc = "idle"
    /\ pwCall' = [pwCall EXCEPT ![c] =
                    IF ok THEN [@ EXCEPT !.pc = "extract"]
                    ELSE IF pwImpl = "PlaywrightStrategy"
                    THEN [@ EXCEPT !.pc = "extract", !.idleFailed = TRUE]
                    ELSE [Throw(c, GotoTimeout, "idle") EXCEPT !.idleFailed = TRUE]]
    /\ UNCHANGED <<notPwVars, pwImpl, pwOpts, pwUrl, pwOpen>>

\* page.content(), page.title(), page.evaluate(...): the record is built
PwExtract(c, ok) ==
    /\ pwCall[c].pc = "extract"
    /\ pwCall' = [pwCall EXCEPT ![c] =
                    IF ok THEN [@ EXCEPT !.pc = "closeContext", !.value = "rec1"]
                    ELSE Throw(c, Err("Error", <<"page.evaluate: ", "failed">>), "extract")]
    /\ UNCHANGED <<notPwVars, pwImpl, pwOpts, pwUrl, pwOpen>>

\* PlaywrightStrategy: finally { if (context) await context.close().catch(() => {}) }
\* scrapeWebsitePlaywright: await page.close(); await context.close()
PwCloseContext(c) ==
    /\ pwCall[c].pc = "closeContext"
    /\ pwOpen' = IF pwCall[c].context /= NoHandle THEN Close(pwOpen, pwCall[c].context) ELSE pwOpen
    /\ pwCall' = [pwCall EXCEPT ![c].pc = "closeBrowser"]
    /\ UNCHANGED <<notPwVars, pwImpl, pwOpts, pwUrl>>

\* PlaywrightStrategy: if (browser) await browser.close().catch(() => {}), and
\* the call settles.  scrapeWebsitePlaywright: await browser.close(); return
PwCloseBrowser(c) ==
    /\ pwCall[c].pc = "closeBrowser"
    /\ pwOpen' = IF pwCall[c].browser /= NoHandle THEN Close(pwOpen, pwCall[c].browser) ELSE pwOpen
    /\ pwCall' = [pwCall EXCEPT ![c] =
                    [@ EXCEPT !.pc = "done",
                              !.out = IF pwCall[c].err = NoErr THEN "returned" ELSE "thrown"]]
    /\ UNCHANGED <<notPwVars, pwImpl, pwOpts, pwUrl>>

\* scrapeWebsitePlaywright: catch (err) { lastErr = err; if (browser) { try
\* { await browser.close() } catch {} } ... }, and throw lastErr after the
\* last attempt
PwCatch(c) ==
    /\ pwCall[c].pc = "catch"
    /\ pwOpen' = IF pwCall[c].browser /= NoHandle THEN Close(pwOpen, pwCall[c].browser) ELSE pwOpen
    /\ pwCall' = [pwCall EXCEPT ![c] =
                    IF pwCall[c].attempt < pwOpts.retries
                    THEN [@ EXCEPT !.pc = "sleep"]
                    ELSE [@ EXCEPT !.pc = "done", !.out = "thrown", !.attempt = @ + 1]]
    /\ UNCHANGED <<notPwVars, pwImpl, pwOpts, pwUrl>>

\* await new Promise(res => setTimeout(res, attempt * 1000)); attempt++
PwSleep(c) ==
    /\ pwCall[c].pc = "sleep"
    /\ pwCall' = [pwCall EXCEPT ![c] = [@ EXCEPT !.pc = "launch", !.attempt = @ + 1]]
    /\ UNCHANGED <<notPwVars, pwImpl, pwOpts, pwUrl, pwOpen>>


(***************************************************************************)
(* isAllowedByRobots (the rule scan of utils/robots), and the scrape that  *)
(* awaits it.  robots.txt is a sequence of lines; a line is its directive  *)
(* and the text after the colon, trimmed, as a sequence of characters.     *)
(***************************************************************************)
Agents == {<<"*">>, <<"g", "b">>}
RulePaths == {<<>>, <<"/">>, <<"/", "p">>, <<"/", "q">>}
RobotsLines ==
    [kind : {"user-agent"}, arg : Agents] \cup [kind : {"disallow"}, arg : RulePaths]
    \cup {[kind |-> "allow", arg |-> <<"/", "p">>], [kind |-> "other", arg |-> <<>>]}
RobotsFiles == UNION {[1..n -> RobotsLines] : n \in 0..MaxRobotsLines}
\* what fetch(robotsUrl) gives: a rejection, a response that is not ok, or
\* a file
RobotsResponses ==
    {[fetch |-> "error", lines |-> <<>>], [fetch |-> "notOk", lines |-> <<>>]}
    \cup [fetch : {"ok"}, lines : RobotsFiles]
RobotsUrls == {<<"https://", "a.com">>, <<"https://", "a.com", "/p">>}

\* new URL(url).pathname, in characters
Pathname(url) == IF Len(url) <= 2 THEN <<"/">> ELSE <<"/", "p">>

\* String.prototype.startsWith
IsPrefix(p, s) == Len(p) <= Len(s) /\ SubSeq(s, 1, Len(p)) = p

\* the for loop over the lines, with every user-agent block taken to apply
RECURSIVE ScanLines_anyBlock(_, _, _, _)
ScanLines_anyBlock(lines, i, inUserAgentSection, urlPath) ==
    IF i > Len(lines) THEN [allowed |-> TRUE, line |-> 0]
    ELSE IF lines[i].kind = "disallow" /\ lines[i].arg /= <<>> /\ IsPrefix(lines[i].arg, urlPath)
         THEN [allowed |-> FALSE, line |-> i]
         ELSE ScanLines_anyBlock(lines, i + 1, inUserAgentSection, urlPath)

\* the for loop over the lines, from line i on
RECURSIVE ScanLines(_, _, _, _)
ScanLines(lines, i, inUserAgentSection, urlPath) ==
    IF i > Len(lines) THEN [allowed |-> TRUE, line |-> 0]
    ELSE LET section == IF lines[i].kind = "user-agent" THEN Includes(lines[i].arg, "*")
                        ELSE inUserAgentSection
         IN IF section /\ lines[i].kind = "disallow"
               /\ lines[i].arg /= <<>> /\ IsPrefix(lines[i].arg, urlPath)
            THEN [allowed |-> FALSE, line |-> i]
            ELSE ScanLines(lines, i + 1, section, urlPath)

isAllowedByRobots(response, url) ==
    IF response.fetch /= "ok" THEN [allowed |-> TRUE, line |-> 0]
    ELSE ScanLines(response.lines, 1, FALSE, Pathname(url))

RbInit ==
    /\ rbUrl \in RobotsUrls
    /\ rbResponse \in RobotsResponses
    /\ rbPc = "robots"
    /\ rbAllowed = [allowed |-> TRUE, line |-> 0]
    /\ rbCached = FALSE
    /\ rbOut = NoOutcome
    /\ rbCalls = 0

RbParked ==
    /\ rbUrl = <<"https://", "a.com">>
    /\ rbResponse = [fetch |-> "error", lines |-> <<>>]
    /\ rbPc = "done"
    /\ rbAllowed = [allowed |-> TRUE, line |-> 0]
    /\ rbCached = FALSE
    /\ rbOut = NoOutcome
    /\ rbCalls = 0

\* const allowed = await isAllowedByRobots(normalizedUrl)
RbCheck ==
    /\ rbPc = "robots"
    /\ rbAllowed' = isAllowedByRobots(rbResponse, rbUrl)
    /\ rbPc' = "scrape"
    /\ UNCHANGED <<notRbVars, rbUrl, rbResponse, rbCached, rbOut, rbCalls>>

\* the rest of UnifiedScraper.scrape, on a cache that holds a record for the
\* URL or not
RbScrape(cached, usePw) ==
    /\ rbPc = "scrape"
    /\ LET c == [u \in Urls |-> IF cached /\ u = rbUrl THEN "rec1" ELSE Absent]
           s == RetryService_retryWithBackoff(scrapeWithCheerio(rbUrl, 3), 3, 0)
       IN /\ rbOut' = UnifiedScraper_scrape(Str(rbUrl), rbAllowed.allowed, c, usePw, 3, 0)
          /\ rbCalls' = IF rbAllowed.allowed /\ ~cached THEN s.calls ELSE 0
    /\ rbCached' = cached
    /\ rbPc' = "done"
    /\ UNCHANGED <<notRbVars, rbUrl, rbResponse, rbAllowed>>


(***************************************************************************)
(* validateUrl applied to its own result.                                  *)
(***************************************************************************)
UrlTokens == {SP, "https://", "http://", "a.com", "/p"}
\* every string of up to MaxUrlTokens tokens, and a value that is no string
ValidateInputs == {NonString} \cup {Str(s) : s \in UNION {[1..n -> UrlTokens] : n \in 0..MaxUrlTokens}}
NoResult == [ok |-> FALSE, category |-> "none", value |-> <<>>]

VuInit ==
    /\ vuInput \in ValidateInputs
    /\ vuPc = "first"
    /\ vuOnce = NoResult
    /\ vuTwice = NoResult

VuParked ==
    /\ vuInput = NonString
    /\ vuPc = "done"
    /\ vuOnce = NoResult
    /\ vuTwice = NoResult

\* validateUrl(u)
VuFirst ==
    /\ vuPc = "first"
    /\ vuOnce' = validateUrl(vuInput)
    /\ vuPc' = IF validateUrl(vuInput).ok THEN "second" ELSE "done"
    /\ UNCHANGED <<notVuVars, vuInput, vuTwice>>

\* validateUrl(validateUrl(u))
VuSecond ==
    /\ vuPc = "second"
    /\ vuTwice' = validateUrl(Str(vuOnce.value))
    /\ vuPc' = "done"
    /\ UNCHANGED <<notVuVars, vuInput, vuOnce>>


(***************************************************************************)
(* validateContent.  A title is a sequence of tokens; html and text are    *)
(* kept as their length and whether they contain one of the phrases of     *)
(* the blocked list.                                                       *)
(***************************************************************************)
Titles ==
    {<<>>, <<SP>>, <<"Untitled">>, <<SP, "Untitled", SP>>, <<"UNTITLED">>, <<"Hello">>,
     <<"Hello", SP, "Untitled">>}
\* the shortest phrase of the blocked list, 'Not Found'
ShortestBlocked == 9
Lengths == {0, 50, 99, 100, 199, 200, 250}
Bodies == {b \in [len : Lengths, blocked : BOOLEAN] : b.blocked => b.len >= ShortestBlocked}
\* text is trimmed before it is measured: (scrapedData.text || '').trim()
NullData == [isNull |-> TRUE, title |-> <<>>, html |-> [len |-> 0, blocked |-> FALSE],
             text |-> [len |-> 0, blocked |-> FALSE]]
ScrapedData ==
    {NullData} \cup [isNull : {FALSE}, title : Titles, html : Bodies, text : Bodies]

\* String.prototype.toLowerCase
ToLowerCase(s) == [i \in 1..Len(s) |-> IF s[i] \in {"Untitled", "UNTITLED"} THEN "untitled" ELSE s[i]]

\* validateContent with the length threshold at 300
validateContent_threshold300(scrapedData) ==
    IF scrapedData.isNull THEN [valid |-> FALSE, issues |-> <<"No scraped data">>]
    ELSE LET issues == IF scrapedData.html.len + scrapedData.text.len < 300
                       THEN <<"Content too short (less than 100 characters)">> ELSE <<>>
         IN [valid |-> issues = <<>>, issues |-> issues]

validateContent(scrapedData) ==
    IF scrapedData.isNull THEN [valid |-> FALSE, issues |-> <<"No scraped data">>]
    ELSE LET title == Trim(scrapedData.title)
             i1 == IF title = <<>> \/ ToLowerCase(title) = <<"untitled">>
                   THEN <<"Missing meaningful title">> ELSE <<>>
             i2 == IF scrapedData.html.len + scrapedData.text.len < 100
                   THEN <<"Content too short (less than 100 characters)">> ELSE <<>>
             i3 == IF scrapedData.html.blocked \/ scrapedData.text.blocked
                   THEN <<"Possible access restriction detected">> ELSE <<>>
             issues == i1 \o i2 \o i3
         IN [valid |-> issues = <<>>, issues |-> issues]

NotValidated == [valid |-> FALSE, issues |-> <<"not called">>]

VcInit ==
    /\ vcData \in ScrapedData
    /\ vcPc = "call"
    /\ vcRet = NotValidated

VcParked ==
    /\ vcData = NullData
    /\ vcPc = "done"
    /\ vcRet = NotValidated

VcValidate ==
    /\ vcPc = "call"
    /\ vcRet' = validateContent(vcData)
    /\ vcPc' = "done"
    /\ UNCHANGED <<notVcVars, vcData>>


(***************************************************************************)
(* Title extraction of the four record producers.  A page carries the      *)
(* text of its <title>, of its first <h1> and the content of its og:title  *)
(* meta; the empty sequence stands for an empty or missing one.            *)
(***************************************************************************)
Untitled == <<"Untitled">>
TitleTexts == {<<>>, <<SP>>, <<"T">>, <<SP, "T">>}
H1Texts == {<<>>, <<SP>>, <<"H">>, <<"H", SP>>}
OgTexts == {<<>>, <<SP>>, <<"O">>, <<SP, "O", SP>>}
TitlePages == [title : TitleTexts, h1 : H1Texts, og : OgTexts]
Extractors == {"CheerioStrategy", "PlaywrightStrategy", "scrapeWebsite", "scrapeWebsitePlaywright"}

\* a || b on strings, undefined and null: the empty one is falsy
OrElse(a, b) == IF a /= <<>> THEN a ELSE b

\* CheerioStrategy requestHandler: $('title').text() || 'Untitled', trimmed
CheerioTitle(page) == Trim(OrElse(page.title, Untitled))

\* page.title() is document.title, which strips the surrounding whitespace
DocumentTitle(page) == Trim(page.title)

\* PlaywrightStrategy.scrape: title || 'Untitled'
PlaywrightTitle(page) == OrElse(DocumentTitle(page), Untitled)

\* scrapeWebsite requestHandler: title || h1 || og:title || 'Untitled', trimmed
LegacyCheerioTitle(page) ==
    Trim(OrElse(page.title, OrElse(page.h1, OrElse(page.og, Untitled))))

\* scrapeWebsitePlaywright: textContent of head > title || h1 || og:title
\* content || 'Untitled', then (title || '').trim()
LegacyPlaywrightTitle(page) ==
    Trim(OrElse(OrElse(page.title, OrElse(page.h1, OrElse(page.og, Untitled))), <<>>))

NoTitle == <<"not extracted">>

TlInit ==
    /\ tlPage \in TitlePages
    /\ tlBy = "none"
    /\ tlTitle = NoTitle

TlParked ==
    /\ tlPage = [title |-> <<>>, h1 |-> <<>>, og |-> <<>>]
    /\ tlBy = "parked"
    /\ tlTitle = NoTitle

TlCheerioStrategy ==
    /\ tlBy = "none"
    /\ tlTitle' = CheerioTitle(tlPage)
    /\ tlBy' = "CheerioStrategy"
    /\ UNCHANGED <<notTlVars, tlPage>>

TlPlaywrightStrategy ==
    /\ tlBy = "none"
    /\ tlTitle' = PlaywrightTitle(tlPage)
    /\ tlBy' = "PlaywrightStrategy"
    /\ UNCHANGED <<notTlVars, tlPage>>

TlScrapeWebsite ==
    /\ tlBy = "none"
    /\ tlTitle' = LegacyCheerioTitle(tlPage)
    /\ tlBy' = "scrapeWebsite"
    /\ UNCHANGED <<notTlVars, tlPage>>

TlScrapeWebsitePlaywright ==
    /\ tlBy = "none"
    /\ tlTitle' = LegacyPlaywrightTitle(tlPage)
    /\ tlBy' = "scrapeWebsitePlaywright"
    /\ UNCHANGED <<notTlVars, tlPage>>


(***************************************************************************)
(* NoteManager.create, as ActorService.processUrls calls it: one call at   *)
(* a time, checkDuplicate true, overwrite = updateExisting, and the same   *)
(* fileName every time.  A path is the stamp appended to the file name,    *)
(* NoStamp for `${fileName}.md` itself; the clock is Date.now().           *)
(***************************************************************************)
NoStamp == -1
Stamps == 0..MaxNoteTime
NotePaths == {NoStamp} \cup Stamps
NoNote == 0
NoteContents == 1..MaxCreates

\* fs.stat(fullFilePath) does not throw
NoteExists(files, p) == files[p] /= NoNote

\* `${fileName}-${Date.now()}`
UniqueName(p, dateNow) == dateNow

NmInit ==
    /\ nmOverwrite \in BOOLEAN
    /\ nmFiles = [p \in NotePaths |-> NoNote]
    /\ nmNow = 0
    /\ nmPc = "idle"
    /\ nmPath = NoStamp
    /\ nmCalls = 0
    /\ nmWrites = <<>>

NmParked ==
    /\ nmOverwrite = FALSE
    /\ nmFiles = [p \in NotePaths |-> NoNote]
    /\ nmNow = 0
    /\ nmPc = "parked"
    /\ nmPath = NoStamp
    /\ nmCalls = 0
    /\ nmWrites = <<>>

\* create(folderPath, fileName, content, {checkDuplicate: true, overwrite}):
\* the paths are computed and fs.mkdir is awaited
NmCreate ==
    /\ nmPc = "idle"
    /\ nmCalls < MaxCreates
    /\ nmCalls' = nmCalls + 1
    /\ nmPath' = NoStamp
    /\ nmPc' = "exists"
    /\ UNCHANGED <<notNmVars, nmOverwrite, nmFiles, nmNow, nmWrites>>

\* this.exists has settled; when the note exists and overwrite is off, the
\* recursive create(uniqueName, {checkDuplicate: false}) goes to its write
NmExists ==
    /\ nmPc = "exists"
    /\ nmPath' = IF NoteExists(nmFiles, nmPath) /\ ~nmOverwrite
                 THEN UniqueName(nmPath, nmNow) ELSE nmPath
    /\ nmPc' = "write"
    /\ UNCHANGED <<notNmVars, nmOverwrite, nmFiles, nmNow, nmCalls, nmWrites>>

\* fs.writeFile(fullFilePath, content, 'utf8')
NmWrite ==
    /\ nmPc = "write"
    /\ nmWrites' = Append(nmWrites, [path |-> nmPath, existed |-> NoteExists(nmFiles, nmPath)])
    /\ nmFiles' = [nmFiles EXCEPT ![nmPath] = nmCalls]
    /\ nmPc' = "idle"
    /\ UNCHANGED <<notNmVars, nmOverwrite, nmNow, nmCalls, nmPath>>

\* a millisecond passes
NmTick ==
    /\ nmPc /= "parked"
    /\ nmNow < MaxNoteTime
    /\ nmNow' = nmNow + 1
    /\ UNCHANGED <<notNmVars, nmOverwrite, nmFiles, nmPc, nmPath, nmCalls, nmWrites>>


(***************************************************************************)
(* scrapeWebsiteWithFailover, with the ScrapeCache of the helpers or with  *)
(* cache = null.  scrapeWebsitePlaywright and scrapeWebsiteCheerio are     *)
(* awaited calls that return a record or throw; calls come one at a time.  *)
(***************************************************************************)
FoUrls == {"u1", "u2"}
PlaywrightError == "playwright error"
CheerioError == "cheerio error"

FoInit ==
    /\ foHasCache \in BOOLEAN
    /\ foCache = [u \in FoUrls |-> Absent]
    /\ foPc = "idle"
    /\ foUrl = "u1"
    /\ foUsePlaywright = FALSE
    /\ foBefore = [u \in FoUrls |-> Absent]
    /\ foInvoked = <<>>
    /\ foOut = NoOutcome
    /\ foCalls = 0

FoParked ==
    /\ foHasCache = FALSE
    /\ foCache = [u \in FoUrls |-> Absent]
    /\ foPc = "parked"
    /\ foUrl = "u1"
    /\ foUsePlaywright = FALSE
    /\ foBefore = [u \in FoUrls |-> Absent]
    /\ foInvoked = <<>>
    /\ foOut = NoOutcome
    /\ foCalls = 0

\* the call, up to its first await: the cache check, then the choice of
\* the scraper
FoStart(url, usePw) ==
    /\ foPc \in {"idle", "done"}
    /\ foCalls < MaxFailoverCalls
    /\ foCalls' = foCalls + 1
    /\ foUrl' = url
    /\ foUsePlaywright' = usePw
    /\ foBefore' = foCache
    /\ foInvoked' = <<>>
    /\ IF foHasCache /\ Truthy(ScrapeCache_get(foCache, url))
       THEN /\ foOut' = Returned(ScrapeCache_get(foCache, url))
            /\ foPc' = "done"
       ELSE /\ foOut' = NoOutcome
            /\ foPc' = IF usePw THEN "playwright" ELSE "cheerio"
    /\ UNCHANGED <<notFoVars, foHasCache, foCache>>

\* await scrapeWebsitePlaywright(url, retries) settles
FoPlaywrightSettles(ok, res) ==
    /\ foPc = "playwright"
    /\ foInvoked' = Append(foInvoked, [by |-> "playwright", ok |-> ok])
    /\ IF ok
       THEN /\ foCache' = IF foHasCache THEN ScrapeCache_set(foCache, foUrl, res) ELSE foCache
            /\ foOut' = Returned(res)
            /\ foPc' = "done"
       ELSE /\ foPc' = "cheerio"
            /\ UNCHANGED <<foCache, foOut>>
    /\ UNCHANGED <<notFoVars, foHasCache, foUrl, foUsePlaywright, foBefore, foCalls>>

\* await scrapeWebsiteCheerio(url, retries) settles
FoCheerioSettles(ok, res) ==
    /\ foPc = "cheerio"
    /\ foInvoked' = Append(foInvoked, [by |-> "cheerio", ok |-> ok])
    /\ IF ok
       THEN /\ foCache' = IF foHasCache THEN ScrapeCache_set(foCache, foUrl, res) ELSE foCache
            /\ foOut' = Returned(res)
       ELSE /\ foOut' = Thrown("none", CheerioError)
            /\ UNCHANGED foCache
    /\ foPc' = "done"
    /\ UNCHANGED <<notFoVars, foHasCache, foUrl, foUsePlaywright, foBefore, foCalls>>


(***************************************************************************)
(* The scrape_website tool of mcp-server.js.  Its local scrapeWebsite      *)
(* constructs a UnifiedScraper and returns nothing.                        *)
(***************************************************************************)
ToolUrls == {"", "u1", "u2"}
ToolRetries == 0..MaxToolRetries
NoResponse == [kind |-> "none", success |-> FALSE, error |-> "none"]
\* the handler rejects: the request gets a protocol error
ToolThrows(msg) == [kind |-> "thrown", success |-> FALSE, error |-> msg]
\* JSON.stringify({success: false, error})
ToolFailure(msg) == [kind |-> "returned", success |-> FALSE, error |-> msg]
\* JSON.stringify({success: true, title, description, ...})
ToolSuccess == [kind |-> "returned", success |-> TRUE, error |-> "none"]

\* mcp-server.js scrapeWebsite(url, retries): the scraper is constructed and
\* never used; the promise resolves with undefined
mcpScrapeWebsite(url, n) == [threw |-> FALSE, value |-> Undefined, scrapes |-> <<>>]

McInit ==
    /\ mcPc = "idle"
    /\ mcArgs = [url |-> "", retries |-> 0]
    /\ mcScrapes = <<>>
    /\ mcResponses = <<>>

McParked ==
    /\ mcPc = "parked"
    /\ mcArgs = [url |-> "", retries |-> 0]
    /\ mcScrapes = <<>>
    /\ mcResponses = <<>>

\* the request handler up to await scrapeWebsite(url, retries)
McCallTool(url, n) ==
    /\ mcPc = "idle"
    /\ Len(mcResponses) < MaxToolCalls
    /\ mcArgs' = [url |-> url, retries |-> n]
    /\ mcScrapes' = <<>>
    /\ IF url = ""
       THEN /\ mcResponses' = Append(mcResponses, ToolThrows("url is required"))
            /\ mcPc' = "idle"
       ELSE /\ mcPc' = "await"
            /\ UNCHANGED mcResponses
    /\ UNCHANGED notMcVars

\* scrapeWebsite has settled: result.title is read and the response built
McRespond ==
    /\ mcPc = "await"
    /\ LET r == mcpScrapeWebsite(mcArgs.url, mcArgs.retries)
       IN /\ mcScrapes' = r.scrapes
          /\ mcResponses' = Append(mcResponses,
                IF r.threw THEN ToolFailure("scrape error")
                ELSE IF r.value \in {Undefined, Null}
                     THEN ToolFailure("Cannot read properties of undefined (reading 'title')")
                     ELSE ToolSuccess)
    /\ mcPc' = "idle"
    /\ UNCHANGED <<notMcVars, mcArgs>>


(***************************************************************************)
(* CheerioStrategy and PlaywrightStrategy sharing one MemoryCache, as      *)
(* main.js constructs them; scrape calls come one at a time.               *)
(***************************************************************************)
StUrls == {"u1", "u2"}
\* new MemoryCache({ maxSize: 100 }): no TTL
StMaxSize == 100
StNoTtl == 0
StrategyNames == {"CheerioStrategy", "PlaywrightStrategy"}

\* this.cache inside requestHandler: the handler is a method of the options
\* object and the crawler calls it, so `this` is not the strategy and
\* this.cache is undefined
HandlerCache(strategyCache) == Undefined

StInit ==
    /\ stEnableStealth \in BOOLEAN
    /\ stCache = <<>>
    /\ stPc = "idle"
    /\ stBy = "CheerioStrategy"
    /\ stUrl = "u1"
    /\ stRan = FALSE
    /\ stOut = NoOutcome
    /\ stProduced = [u \in StUrls |-> Absent]
    /\ stKnown = Absent
    /\ stCalls = 0

StParked ==
    /\ stEnableStealth = FALSE
    /\ stCache = <<>>
    /\ stPc = "parked"
    /\ stBy = "CheerioStrategy"
    /\ stUrl = "u1"
    /\ stRan = FALSE
    /\ stOut = NoOutcome
    /\ stProduced = [u \in StUrls |-> Absent]
    /\ stKnown = Absent
    /\ stCalls = 0

\* scrape(url) of either strategy up to its first await: validateUrl, then
\* the cache check
StScrape(by, url) ==
    /\ stPc \in {"idle", "done"}
    /\ stCalls < MaxStrategyCalls
    /\ stCalls' = stCalls + 1
    /\ stBy' = by
    /\ stUrl' = url
    /\ stRan' = FALSE
    /\ stKnown' = stProduced[url]
    /\ LET g == MemoryCache_get(stCache, url, 1, StNoTtl)
       IN /\ stCache' = g.cache
          /\ IF Truthy(g.ret)
             THEN stOut' = Returned(g.ret) /\ stPc' = "done"
             ELSE stOut' = NoOutcome /\ stPc' = IF by = "CheerioStrategy" THEN "crawl" ELSE "browser"
    /\ UNCHANGED <<notStVars, stEnableStealth, stProduced>>

\* CheerioStrategy: the crawler has run; on success the requestHandler built
\* the record and tested this.cache
StCrawlSettles(ok, rec) ==
    /\ stPc = "crawl"
    /\ stRan' = TRUE
    /\ IF ok
       THEN /\ stCache' = IF HandlerCache(stCache) /= Undefined
                          THEN MemoryCache_set(stCache, stUrl, rec, 1, StMaxSize)
                          ELSE stCache
            /\ stOut' = Returned(rec)
            /\ stProduced' = [stProduced EXCEPT ![stUrl] = rec]
       ELSE /\ stOut' = Thrown("processing", "CheerioStrategy returned no data")
            /\ UNCHANGED <<stCache, stProduced>>
    /\ stPc' = "done"
    /\ UNCHANGED <<notStVars, stEnableStealth, stBy, stUrl, stKnown, stCalls>>

\* PlaywrightStrategy: the browser was launched and the page scraped, or a
\* step failed; with enableStealth the stealth setup of the context throws
StBrowserSettles(ok, rec) ==
    /\ stPc = "browser"
    /\ stRan' = TRUE
    /\ IF ok /\ (stEnableStealth => setupPlaywrightStealth("context") = NoErr)
       THEN /\ stCache' = MemoryCache_set(stCache, stUrl, rec, 1, StMaxSize)
            /\ stOut' = Returned(rec)
            /\ stProduced' = [stProduced EXCEPT ![stUrl] = rec]
       ELSE /\ stOut' = Thrown("network", "PlaywrightStrategy failed")
            /\ UNCHANGED <<stCache, stProduced>>
    /\ stPc' = "done"
    /\ UNCHANGED <<notStVars, stEnableStealth, stBy, stUrl, stKnown, stCalls>>


(***************************************************************************)
(* PersistentScrapeCache.set called without awaiting the previous call.    *)
(* A call awaits the store, then store.setValue, then adds to the memory   *)
(* layer; the store applies a write at some moment of the setValue await   *)
(* and the awaits of different calls settle in any order.                  *)
(***************************************************************************)
SetCalls == 1..MaxOverlap
NoSet == [pc |-> "idle", url |-> "u1", data |-> Null]

KsInit ==
    /\ ksMemory = <<>>
    /\ ksStore = [u \in KvUrls |-> Null]
    /\ ksCall = [c \in SetCalls |-> NoSet]

KsParked ==
    /\ ksMemory = <<>>
    /\ ksStore = [u \in KvUrls |-> Null]
    /\ ksCall = [c \in SetCalls |-> [NoSet EXCEPT !.pc = "parked"]]

\* cache.set(url, data), not awaited: the call runs up to await this._store()
KsSet(c, url, data) ==
    /\ ksCall[c].pc = "idle"
    /\ ksCall' = [ksCall EXCEPT ![c] = [pc |-> "setValue", url |-> url, data |-> data]]
    /\ UNCHANGED <<notKsVars, ksMemory, ksStore>>

\* store.setValue(key, data, ...) takes effect in the key-value store
KsSetValue(c) ==
    /\ ksCall[c].pc = "setValue"
    /\ ksStore' = [ksStore EXCEPT ![ksCall[c].url] = ksCall[c].data]
    /\ ksCall' = [ksCall EXCEPT ![c].pc = "written"]
    /\ UNCHANGED <<notKsVars, ksMemory>>

\* the await of setValue settles: this._addToMemory(url, data)
KsAddToMemory(c) ==
    /\ ksCall[c].pc = "written"
    /\ ksMemory' = addToMemory(ksMemory, ksCall[c].url, ksCall[c].data)
    /\ ksCall' = [ksCall EXCEPT ![c].pc = "done"]
    /\ UNCHANGED <<notKsVars, ksStore>>


(***************************************************************************)
(* PersistentCache.save with the calls that can run while it awaits its    *)
(* file write: set and get are synchronous and run between the start of    *)
(* the write and its settling.                                             *)
(***************************************************************************)
SvInit ==
    /\ svCache = <<>>
    /\ svDirty = FALSE
    /\ svTtl \in 0..1
    /\ svNow = 1
    /\ svFile = NoFile
    /\ svPc = "idle"
    /\ svWriting = <<>>
    /\ svSaves = 0
    /\ svOps = 0

SvParked ==
    /\ svCache = <<>>
    /\ svDirty = FALSE
    /\ svTtl = 0
    /\ svNow = 1
    /\ svFile = NoFile
    /\ svPc = "parked"
    /\ svWriting = <<>>
    /\ svSaves = 0
    /\ svOps = 0

\* cache.set(url, data)
SvSet(url, data) ==
    /\ svPc \in {"idle", "writing"}
    /\ svOps < MaxSaveOps
    /\ svOps' = svOps + 1
    /\ svCache' = Put(svCache, [key |-> url, data |-> data, timestamp |-> svNow,
                                accessCount |-> 0, lastAccess |-> svNow])
    /\ svDirty' = TRUE
    /\ UNCHANGED <<notSvVars, svTtl, svNow, svFile, svPc, svWriting, svSaves>>

\* cache.get(url)
SvGet(url) ==
    /\ svPc \in {"idle", "writing"}
    /\ svOps < MaxSaveOps
    /\ svOps' = svOps + 1
    /\ LET g == PersistentCache_get(svCache, url, svNow, svTtl)
       IN /\ svCache' = g.cache
          /\ svDirty' = (svDirty \/ g.dirtied)
    /\ UNCHANGED <<notSvVars, svTtl, svNow, svFile, svPc, svWriting, svSaves>>

\* save() up to await fs.writeFile: nothing when clean, else the Map is
\* serialized and the write started
SvSave ==
    /\ svPc = "idle"
    /\ svOps < MaxSaveOps
    /\ svOps' = svOps + 1
    /\ IF ~svDirty
       THEN /\ svSaves' = svSaves + 1
            /\ UNCHANGED <<svPc, svWriting>>
       ELSE /\ svPc' = "writing"
            /\ svWriting' = svCache
            /\ UNCHANGED svSaves
    /\ UNCHANGED <<notSvVars, svCache, svDirty, svTtl, svNow, svFile>>

\* the write settles: this.dirty = false when it succeeded, a warning when
\* it failed
SvWriteSettles(ok) ==
    /\ svPc = "writing"
    /\ IF ok
       THEN /\ svFile' = [exists |-> TRUE, entries |-> svWriting]
            /\ svDirty' = FALSE
       ELSE UNCHANGED <<svFile, svDirty>>
    /\ svPc' = "idle"
    /\ svWriting' = <<>>
    /\ svSaves' = svSaves + 1
    /\ UNCHANGED <<notSvVars, svCache, svTtl, svNow, svOps>>

\* a millisecond passes
SvTick ==
    /\ svPc \in {"idle", "writing"}
    /\ svNow < MaxTime
    /\ svNow' = svNow + 1
    /\ UNCHANGED <<notSvVars, svCache, svDirty, svTtl, svFile, svPc, svWriting, svSaves, svOps>>

(***************************************************************************)
(* Specifications.                                                         *)
(***************************************************************************)
RetryNext ==
    \/ RetryEnter
    \/ RetryAttempt
    \/ \E rnd \in Randoms : RetrySleep(rnd)
    \/ RetryThrow
    \/ RetryServiceCall

InitRetry == RetryInit /\ ScrapeParked /\ MemParked /\ KvParked /\ DiskParked /\ PuParked /\ SmParked /\ CsParked /\ PwParked /\ RbParked /\ VuParked /\ VcParked /\ TlParked /\ NmParked /\ FoParked /\ McParked /\ StParked /\ KsParked /\ SvParked

SpecRetry == InitRetry /\ [][RetryNext]_vars

Next ==
    \/ \E i \in Inputs : StartScrape(i)
    \/ \E allowed \in BOOLEAN : RobotsCheck(allowed)
    \/ RateLimitDelay
    \/ CacheLookup
    \/ Dispatch
    \/ CacheWrite
    \/ Settle
    \/ \E u \in Urls, r \in Records : ExternalSet(u, r)

Init == ScrapeInit /\ RetryParked /\ MemParked /\ KvParked /\ DiskParked /\ PuParked /\ SmParked /\ CsParked /\ PwParked /\ RbParked /\ VuParked /\ VcParked /\ TlParked /\ NmParked /\ FoParked /\ McParked /\ StParked /\ KsParked /\ SvParked

Spec == Init /\ [][Next]_vars

MemNext ==
    \/ \E u \in MKeys : MGet(u)
    \/ \E u \in MKeys, d \in MData : MSet(u, d)
    \/ MClear
    \/ Tick

InitMemoryCache == MemInit /\ RetryParked /\ ScrapeParked /\ KvParked /\ DiskParked /\ PuParked /\ SmParked /\ CsParked /\ PwParked /\ RbParked /\ VuParked /\ VcParked /\ TlParked /\ NmParked /\ FoParked /\ McParked /\ StParked /\ KsParked /\ SvParked

SpecMemoryCache == InitMemoryCache /\ [][MemNext]_vars


KvNext ==
    \/ \E u \in KvUrls : KvGet(u)
    \/ \E u \in KvUrls, d \in KvValues : KvSet(u, d)

InitPersistentScrapeCache == KvInit /\ RetryParked /\ ScrapeParked /\ MemParked /\ DiskParked /\ PuParked /\ SmParked /\ CsParked /\ PwParked /\ RbParked /\ VuParked /\ VcParked /\ TlParked /\ NmParked /\ FoParked /\ McParked /\ StParked /\ KsParked /\ SvParked

SpecPersistentScrapeCache == InitPersistentScrapeCache /\ [][KvNext]_vars


DiskNext ==
    \/ DiskInitCall
    \/ \E u \in DiskUrls : DiskGet(u)
    \/ \E u \in DiskUrls, d \in MData : DiskSet(u, d)
    \/ DiskSave
    \/ DiskClear
    \/ \E life \in 0..2 : DiskNewInstance(life)
    \/ DiskTick

InitPersistentCache == DiskInit /\ RetryParked /\ ScrapeParked /\ MemParked /\ KvParked /\ PuParked /\ SmParked /\ CsParked /\ PwParked /\ RbParked /\ VuParked /\ VcParked /\ TlParked /\ NmParked /\ FoParked /\ McParked /\ StParked /\ KsParked /\ SvParked

SpecPersistentCache == InitPersistentCache /\ [][DiskNext]_vars


PuNext ==
    \/ \E allowed \in BOOLEAN : PuScrape(allowed)
    \/ \E ok \in BOOLEAN : PuBuild(ok)
    \/ PuCatch
    \/ \E throws \in BOOLEAN : PuBroadcast(throws)

InitProcessUrls == PuInit /\ RetryParked /\ ScrapeParked /\ MemParked /\ KvParked /\ DiskParked /\ SmParked /\ CsParked /\ PwParked /\ RbParked /\ VuParked /\ VcParked /\ TlParked /\ NmParked /\ FoParked /\ McParked /\ StParked /\ KsParked /\ SvParked

SpecProcessUrls == InitProcessUrls /\ [][PuNext]_vars


SmNext ==
    \/ \E w \in AllWorkers : SmTake(w)
    \/ \E w \in AllWorkers, ok \in BOOLEAN : SmFetchSettles(w, ok)
    \/ \E w \in AllWorkers, t1 \in BOOLEAN, t2 \in BOOLEAN : SmPush(w, t1, t2)

InitScrapeMany ==
    SmInit /\ RetryParked /\ ScrapeParked /\ MemParked /\ KvParked /\ DiskParked /\ PuParked /\ CsParked /\ PwParked /\ RbParked /\ VuParked /\ VcParked /\ TlParked /\ NmParked /\ FoParked /\ McParked /\ StParked /\ KsParked /\ SvParked

SpecScrapeMany == InitScrapeMany /\ [][SmNext]_vars


CsNext ==
    \/ \E c \in ScrapeCalls, allowed \in BOOLEAN : CsRobots(c, allowed)
    \/ \E c \in ScrapeCalls : CsDelay(c)
    \/ \E c \in ScrapeCalls : CsLookup(c)
    \/ \E c \in ScrapeCalls : CsDispatch(c)
    \/ \E c \in ScrapeCalls : CsWrite(c)

InitConcurrentScrape ==
    CsInit /\ RetryParked /\ ScrapeParked /\ MemParked /\ KvParked /\ DiskParked /\ PuParked /\ SmParked /\ PwParked /\ RbParked /\ VuParked /\ VcParked /\ TlParked /\ NmParked /\ FoParked /\ McParked /\ StParked /\ KsParked /\ SvParked

SpecConcurrentScrape == InitConcurrentScrape /\ [][CsNext]_vars


PwNext ==
    \/ \E c \in PwCalls, cached \in BOOLEAN : PwStart(c, cached)
    \/ \E c \in PwCalls, ok \in BOOLEAN : PwLaunch(c, ok)
    \/ \E c \in PwCalls, ok \in BOOLEAN : PwNewContext(c, ok)
    \/ \E c \in PwCalls : PwStealth(c)
    \/ \E c \in PwCalls, ok \in BOOLEAN : PwBlockWebSockets(c, ok)
    \/ \E c \in PwCalls, ok \in BOOLEAN : PwNewPage(c, ok)
    \/ \E c \in PwCalls, how \in {"ok", "timeout", "error"} : PwGoto(c, how)
    \/ \E c \in PwCalls, ok \in BOOLEAN : PwIdle(c, ok)
    \/ \E c \in PwCalls, ok \in BOOLEAN : PwExtract(c, ok)
    \/ \E c \in PwCalls : PwCloseContext(c)
    \/ \E c \in PwCalls : PwCloseBrowser(c)
    \/ \E c \in PwCalls : PwCatch(c)
    \/ \E c \in PwCalls : PwSleep(c)

InitPlaywright ==
    PwInit /\ RetryParked /\ ScrapeParked /\ MemParked /\ KvParked /\ DiskParked /\ PuParked /\ SmParked /\ CsParked /\ RbParked /\ VuParked /\ VcParked /\ TlParked /\ NmParked /\ FoParked /\ McParked /\ StParked /\ KsParked /\ SvParked

SpecPlaywright == InitPlaywright /\ [][PwNext]_vars


RbNext ==
    \/ RbCheck
    \/ \E cached \in BOOLEAN, usePw \in BOOLEAN : RbScrape(cached, usePw)

InitRobots ==
    RbInit /\ RetryParked /\ ScrapeParked /\ MemParked /\ KvParked /\ DiskParked /\ PuParked /\ SmParked /\ CsParked /\ PwParked /\ VuParked /\ VcParked /\ TlParked /\ NmParked /\ FoParked /\ McParked /\ StParked /\ KsParked /\ SvParked

SpecRobots == InitRobots /\ [][RbNext]_vars


VuNext ==
    \/ VuFirst
    \/ VuSecond

InitValidateUrl ==
    VuInit /\ RetryParked /\ ScrapeParked /\ MemParked /\ KvParked /\ DiskParked /\ PuParked /\ SmParked /\ CsParked /\ PwParked /\ RbParked /\ VcParked /\ TlParked /\ NmParked /\ FoParked /\ McParked /\ StParked /\ KsParked /\ SvParked

SpecValidateUrl == InitValidateUrl /\ [][VuNext]_vars


VcNext == VcValidate

InitValidateContent ==
    VcInit /\ RetryParked /\ ScrapeParked /\ MemParked /\ KvParked /\ DiskParked /\ PuParked /\ SmParked /\ CsParked /\ PwParked /\ RbParked /\ VuParked /\ TlParked /\ NmParked /\ FoParked /\ McParked /\ StParked /\ KsParked /\ SvParked

SpecValidateContent == InitValidateContent /\ [][VcNext]_vars


TlNext ==
    \/ TlCheerioStrategy
    \/ TlPlaywrightStrategy
    \/ TlScrapeWebsite
    \/ TlScrapeWebsitePlaywright

InitTitle ==
    TlInit /\ RetryParked /\ ScrapeParked /\ MemParked /\ KvParked /\ DiskParked /\ PuParked /\ SmParked /\ CsParked /\ PwParked /\ RbParked /\ VuParked /\ VcParked /\ NmParked /\ FoParked /\ McParked /\ StParked /\ KsParked /\ SvParked

SpecTitle == InitTitle /\ [][TlNext]_vars


NmNext ==
    \/ NmCreate
    \/ NmExists
    \/ NmWrite
    \/ NmTick

InitNoteManager ==
    NmInit /\ RetryParked /\ ScrapeParked /\ MemParked /\ KvParked /\ DiskParked /\ PuParked /\ SmParked /\ CsParked /\ PwParked /\ RbParked /\ VuParked /\ VcParked /\ TlParked /\ FoParked /\ McParked /\ StParked /\ KsParked /\ SvParked

SpecNoteManager == InitNoteManager /\ [][NmNext]_vars


FoNext ==
    \/ \E u \in FoUrls, p \in BOOLEAN : FoStart(u, p)
    \/ \E ok \in BOOLEAN, r \in Records : FoPlaywrightSettles(ok, r)
    \/ \E ok \in BOOLEAN, r \in Records : FoCheerioSettles(ok, r)

InitFailover ==
    FoInit /\ RetryParked /\ ScrapeParked /\ MemParked /\ KvParked /\ DiskParked /\ PuParked /\ SmParked /\ CsParked /\ PwParked /\ RbParked /\ VuParked /\ VcParked /\ TlParked /\ NmParked /\ McParked /\ StParked /\ KsParked /\ SvParked

SpecFailover == InitFailover /\ [][FoNext]_vars


McNext ==
    \/ \E u \in ToolUrls, n \in ToolRetries : McCallTool(u, n)
    \/ McRespond

InitMcpServer ==
    McInit /\ RetryParked /\ ScrapeParked /\ MemParked /\ KvParked /\ DiskParked /\ PuParked /\ SmParked /\ CsParked /\ PwParked /\ RbParked /\ VuParked /\ VcParked /\ TlParked /\ NmParked /\ FoParked /\ StParked /\ KsParked /\ SvParked

SpecMcpServer == InitMcpServer /\ [][McNext]_vars


StNext ==
    \/ \E by \in StrategyNames, u \in StUrls : StScrape(by, u)
    \/ \E ok \in BOOLEAN, r \in Records : StCrawlSettles(ok, r)
    \/ \E ok \in BOOLEAN, r \in Records : StBrowserSettles(ok, r)

InitStrategies ==
    StInit /\ RetryParked /\ ScrapeParked /\ MemParked /\ KvParked /\ DiskParked /\ PuParked /\ SmParked /\ CsParked /\ PwParked /\ RbParked /\ VuParked /\ VcParked /\ TlParked /\ NmParked /\ FoParked /\ McParked /\ KsParked /\ SvParked

SpecStrategies == InitStrategies /\ [][StNext]_vars


KsNext ==
    \/ \E c \in SetCalls, u \in KvUrls, d \in KvValues : KsSet(c, u, d)
    \/ \E c \in SetCalls : KsSetValue(c)
    \/ \E c \in SetCalls : KsAddToMemory(c)

InitOverlappingSets ==
    KsInit /\ RetryParked /\ ScrapeParked /\ MemParked /\ KvParked /\ DiskParked /\ PuParked /\ SmParked /\ CsParked /\ PwParked /\ RbParked /\ VuParked /\ VcParked /\ TlParked /\ NmParked /\ FoParked /\ McParked /\ StParked /\ SvParked

SpecOverlappingSets == InitOverlappingSets /\ [][KsNext]_vars


SvNext ==
    \/ \E u \in DiskUrls, d \in MData : SvSet(u, d)
    \/ \E u \in DiskUrls : SvGet(u)
    \/ SvSave
    \/ \E ok \in BOOLEAN : SvWriteSettles(ok)
    \/ SvTick

InitSaveOverlap ==
    SvInit /\ RetryParked /\ ScrapeParked /\ MemParked /\ KvParked /\ DiskParked /\ PuParked /\ SmParked /\ CsParked /\ PwParked /\ RbParked /\ VuParked /\ VcParked /\ TlParked /\ NmParked /\ FoParked /\ McParked /\ StParked /\ KsParked

SpecSaveOverlap == InitSaveOverlap /\ [][SvNext]_vars

(***************************************************************************)
(* Claims about retryWithBackoff (SpecRetry).                              *)
(***************************************************************************)

\* C1: an operation that fails k times and then succeeds, with maxAttempts > k,
\* gives the success value after exactly k + 1 calls; an operation that always
\* fails is called exactly maxAttempts times (maxAttempts >= 1) and the error
\* of the final attempt is re-raised.
C1_RetryContract ==
    rpc = "done" =>
        /\ (~opAlways /\ opK < maxRetries) =>
               (rres.kind = "returned" /\ rres.val = "ok" /\ calls = opK + 1)
        /\ (opAlways /\ maxRetries >= 1) =>
               (rres.kind = "thrown" /\ calls = maxRetries /\ rres.err = maxRetries)

(***************************************************************************)
(* Claims about UnifiedScraper.scrape (Spec).                              *)
(***************************************************************************)
NoStrategyWork == staticCalls = 0 /\ renderCalls = 0 /\ backoffSleeps = 0

\* C2: when isAllowedByRobots answers that the URL is disallowed, the scrape
\* fails with category 'robots'; no strategy is invoked, no rate-limit wait is
\* performed and the cache is not written.
C2_RobotsDisallowFailsFirst ==
    (pc /= "idle" /\ robots = "disallowed") =>
        /\ pc = "done"
        /\ outcome.kind = "thrown"
        /\ outcome.category = "robots"
        /\ NoStrategyWork
        /\ waits = 0
        /\ cacheSets = 0
        /\ cache = cacheAtStart

C2_Witness ==
    /\ pc = "done"
    /\ robots = "disallowed"
    /\ robotsFetches = 1
    /\ outcome.category = "robots"

C4_ExhaustedStrategiesFail ==
    (pc = "done" /\ dispatched /\ staticFails = staticCalls) =>
        /\ ~usePlaywright => (outcome.kind = "thrown" /\ outcome.err = "static")
        /\ (usePlaywright /\ renderFails = renderCalls) =>
               (outcome.kind = "thrown" /\ outcome.err = "render")

\* C5: two sequential scrapes of the same URL, the first of which succeeds and
\* with nobody else writing the cache, perform exactly one strategy fetch in
\* total and return the same record.
C5_OneFetchForTwoScrapes ==
    (/\ callNo = 2
     /\ pc = "done"
     /\ prev.kind = "returned"
     /\ prev.url = normalizedUrl
     /\ extWrites = 0) =>
        /\ fetchesTotal = 1
        /\ outcome.kind = "returned"
        /\ outcome.value = prev.value

\* C6: a scrape that returns on a cache miss returns the record a strategy
\* produced, never undefined, and has written that record into the cache
\* exactly once under the normalized URL.
C6_MissReturnsStrategyRecord ==
    (pc = "done" /\ outcome.kind = "returned" /\ ~cacheHit) =>
        /\ outcome.value \in Records
        /\ staticCalls + renderCalls >= 1
        /\ cacheSets = 1
        /\ cache[normalizedUrl] = outcome.value

\* C7: a scrape whose normalized URL is in the cache returns the cached record
\* without a rate-limit wait and without invoking a strategy.
C7_CacheHitSkipsWait ==
    (pc = "done" /\ cacheHit) =>
        /\ outcome = Returned(cacheAtStart[normalizedUrl])
        /\ waits = 0
        /\ NoStrategyWork

\* C8 as stated: every scrape that reaches the strategy dispatch has performed
\* the rate-limit wait exactly once.
C8_WaitExactlyOnce == dispatched => waits = 1

\* C8, amended: a scrape that reaches the strategy dispatch has performed the
\* rate-limit wait exactly once when baseDelay > 0 and not at all when
\* baseDelay is 0; the count does not grow with the attempts that follow.
C8_WaitOnceIfDelayPositive ==
    dispatched => waits = (IF baseDelay > 0 THEN 1 ELSE 0)

C8_Witness ==
    /\ pc = "done"
    /\ dispatched
    /\ baseDelay > 0
    /\ waits = 1

\* the inputs C9 speaks of: no string, the empty string, or a string that
\* does not parse even with https:// in front
C9_FailsNormalization(i) ==
    \/ ~i.isString
    \/ i.s = <<>>
    \/ LET t == Trim(i.s)
       IN ~URLParses(IF StartsWith(t, "http://") \/ StartsWith(t, "https://")
                     THEN t
                     ELSE <<"https://">> \o t)

\* C9: an input that fails normalization makes the scrape fail at once with
\* category 'invalid': no robots.txt fetch, no rate-limit wait, no cache
\* access, no strategy call and no retry.
C9_InvalidUrlFailsAtOnce ==
    (pc /= "idle" /\ C9_FailsNormalization(input)) =>
        /\ pc = "done"
        /\ outcome.kind = "thrown"
        /\ outcome.category = "invalid"
        /\ robotsFetches = 0
        /\ waits = 0
        /\ cacheGets = 0
        /\ cacheSets = 0
        /\ NoStrategyWork
        /\ cache = cacheAtStart

C9_Witness ==
    /\ pc = "done"
    /\ input = Str(<<"a b">>)
    /\ outcome.category = "invalid"

(***************************************************************************)
(* Claims about MemoryCache (SpecMemoryCache).                             *)
(***************************************************************************)
\* the step is a call, not the passing of time
MCall == opCount' = opCount + 1

\* a set that evicts: a new key into a full cache
Overflowing(c, url, size) == Len(c) >= size /\ ~Has(c, url)

\* C10: after set(u, r) the entry of u holds r and a get(u) returns r; a get of
\* a present, unexpired key returns the stored data; and the entry of u stays
\* in place with its data and creation time through every step (gets, sets on
\* other keys, the passing of time) except an overflowing set, an expiring
\* get(u), another set(u, .) and clear.
C10_SetThenGet ==
    [][/\ (MCall /\ lastOp'.op = "set") =>
              /\ Has(mcache', lastOp'.url)
              /\ Entry(mcache', lastOp'.url).data = lastOp'.data
              /\ MemoryCache_get(mcache', lastOp'.url, now', ttl').ret = lastOp'.data
       /\ \A u \in MKeys :
              (/\ MCall
               /\ lastOp'.op = "get"
               /\ lastOp'.url = u
               /\ Has(mcache, u)
               /\ ~Expired(Entry(mcache, u), now, ttl)) =>
                  lastOp'.ret = Entry(mcache, u).data
       /\ \A u \in MKeys :
              Has(mcache, u) =>
                  \/ /\ Has(mcache', u)
                     /\ Entry(mcache', u).data = Entry(mcache, u).data
                     /\ Entry(mcache', u).timestamp = Entry(mcache, u).timestamp
                  \/ MCall /\ lastOp'.op = "set" /\ lastOp'.url = u
                  \/ MCall /\ lastOp'.op = "set" /\ Overflowing(mcache, lastOp'.url, maxSize)
                  \/ /\ MCall
                     /\ lastOp'.op = "get"
                     /\ lastOp'.url = u
                     /\ Expired(Entry(mcache, u), now, ttl)
                  \/ MCall /\ lastOp'.op = "clear"
      ]_vars

\* a get returns what an earlier set stored, with a set on another key and
\* the passing of time in between
C10_Witness ==
    /\ lastOp.op = "get"
    /\ lastOp.ret \in MData
    /\ Len(mcache) = 2
    /\ hits = 1
    /\ now > 1
    /\ \E i \in 1..Len(mcache) :
           mcache[i].key = lastOp.url /\ mcache[i].timestamp < mcache[3 - i].timestamp

\* the key the last call touched, when that call left it in the cache: the
\* most recently accessed entry
MostRecent(u) == lastOp.op \in {"get", "set"} /\ lastOp.url = u /\ Has(mcache, u)

\* C11: with maxSize >= 2, an overflowing set never removes the entry that was
\* accessed (by get or by set) most recently: the entry the previous call read
\* or wrote survives the overflowing set that follows it.
C11_OverflowKeepsMostRecent ==
    [][\A u \in MKeys :
           (/\ maxSize >= 2
            /\ MostRecent(u)
            /\ MCall
            /\ lastOp'.op = "set"
            /\ Overflowing(mcache, lastOp'.url, maxSize)) =>
               Has(mcache', u)
      ]_vars

\* C12: the number of entries never exceeds maxSize, and a set on a key that
\* is already present removes no other key.
C12_BoundedAndUpdateKeepsOthers ==
    [][/\ Len(mcache') <= maxSize
       /\ (MCall /\ lastOp'.op = "set" /\ Has(mcache, lastOp'.url)) =>
              \A u \in MKeys : Has(mcache, u) => Has(mcache', u)
      ]_vars

\* the age of the entry of u, counted from the time it was stored
Age(c, u, t) == t - Entry(c, u).timestamp

\* C13: with a TTL configured, MemoryCache.get and PersistentCache.get return
\* null for an entry stored more than TTL ago and remove it; an entry stored
\* at most TTL ago is returned, whatever its last access time; and a get
\* leaves the creation time of the entry as it was, so it never extends the
\* entry's lifetime.
C13_TtlFromCreation ==
    [][\A u \in MKeys :
           (ttl /= 0 /\ Has(mcache, u)) =>
               /\ (MCall /\ lastOp'.op = "get" /\ lastOp'.url = u) =>
                      IF Age(mcache, u, now) > ttl
                      THEN lastOp'.ret = Null /\ ~Has(mcache', u)
                      ELSE /\ lastOp'.ret = Entry(mcache, u).data
                           /\ Has(mcache', u)
                           /\ Entry(mcache', u).timestamp = Entry(mcache, u).timestamp
               /\ LET g == PersistentCache_get(mcache, u, now, ttl)
                  IN IF Age(mcache, u, now) > ttl
                     THEN g.ret = Null /\ ~Has(g.cache, u)
                     ELSE /\ g.ret = Entry(mcache, u).data
                          /\ Has(g.cache, u)
                          /\ Entry(g.cache, u).timestamp = Entry(mcache, u).timestamp
      ]_vars

\* a get hit on an entry, then a get of the same entry after its TTL ran out:
\* the second get returns null and leaves the cache empty
C13_Witness ==
    /\ ttl = 1
    /\ now = 3
    /\ lastOp.op = "get"
    /\ lastOp.ret = Null
    /\ hits = 1
    /\ misses = 1
    /\ mcache = <<>>

(***************************************************************************)
(* Claims about PersistentScrapeCache (SpecPersistentScrapeCache).         *)
(***************************************************************************)
\* C14: with every call awaited before the next, get(u) resolves with the
\* value of the most recent set(u, .), or null when u was never set, also
\* when u has left the memory layer in between.
C14_GetReturnsLastSet ==
    kvLastOp.op = "get" => kvLastOp.ret = kvLastSet[kvLastOp.url]

(***************************************************************************)
(* Claims about PersistentCache (SpecPersistentCache).                     *)
(***************************************************************************)
\* C15: after sets and a completed save(), a new PersistentCache on the same
\* directory whose first call was init() returns from get(u) the saved data
\* of every saved URL whose age is within the TTL, and holds no entry whose
\* age at load time exceeded the TTL.
C15_SaveInitRoundTrip ==
    (pcGen = 2 /\ pcLast.op = "init" /\ pcLast.first) =>
        /\ \A i \in 1..Len(pcAtSave) :
               (pcTtl = 0 \/ pcNow - pcAtSave[i].timestamp <= pcTtl) =>
                   PersistentCache_get(pcCache, pcAtSave[i].key, pcNow, pcTtl).ret
                       = pcAtSave[i].data
        /\ \A i \in 1..Len(pcCache) :
               pcTtl = 0 \/ pcLast.at - pcCache[i].timestamp <= pcTtl

(***************************************************************************)
(* Claims about processUrls (SpecProcessUrls).                             *)
(***************************************************************************)
\* the records pushed for the URL at index k of urls
RecordsOf(k) == {i \in 1..Len(puResults) : puResults[i].idx = k}

\* C16: processUrls returns, and with exactly one outcome record per input
\* URL: no URL has both a success and a failure record, and a failing step of
\* one URL (the progress broadcast included) does not keep the remaining URLs
\* from being processed.
C16_OneRecordPerUrl ==
    /\ puPc /= "rejected"
    /\ \A k \in 1..Len(puUrls) : Cardinality(RecordsOf(k)) <= 1
    /\ puPc = "done" =>
           \A k \in 1..Len(puUrls) :
               /\ Cardinality(RecordsOf(k)) = 1
               /\ \A i \in RecordsOf(k) : puResults[i].url = puUrls[k]

\* the broadcasts made for the URL at index k of urls
EventsOf(k) == {j \in 1..Len(puEvents) : puEvents[j].idx = k}

InFlight == {w \in AllWorkers : wPc[w] = "fetching"}

\* the entry at index k of urlConfigs has a record in results
Recorded(k) == \E i \in 1..Len(smResults) : smResults[i].idx = k

\* the entries worker w has taken
TakenBy(w) == {k \in 1..Len(smUrls) : \E i \in 1..Len(smTaken[k]) : smTaken[k][i] = w}

\* C18: at most `concurrency` scrapes are in flight; no queue entry is taken
\* twice, by two workers or by one; and a worker that takes an entry has a
\* record in results for every entry it took before.
C18_WorkersDrainQueue ==
    [][/\ Cardinality(InFlight') <= smOpts.concurrency
       /\ \A k \in 1..Len(smUrls) : Len(smTaken'[k]) <= 1
       /\ \A w \in AllWorkers :
              (wCur'[w] /= wCur[w]) => \A k \in TakenBy(w) : Recorded(k)
      ]_vars

\* two workers have a scrape in flight each, one of them on its second entry
\* with its first entry recorded
C18_Witness ==
    /\ smOpts.concurrency = 2
    /\ Cardinality(InFlight) = 2
    /\ \E w \in AllWorkers : \E k \in TakenBy(w) : k /= wCur[w] /\ Recorded(k)

\* Promise.all(workers): rejected as soon as one worker is, else resolved
\* when all the workers have returned
SmRejected == \E w \in AllWorkers : wPc[w] = "rejected"
SmResolved == \A w \in AllWorkers : wPc[w] \in {"done", "off"}

\* the records of the entry at index k of urlConfigs
SmRecordsOf(k) == {i \in 1..Len(smResults) : smResults[i].idx = k}
Successful == {i \in 1..Len(smResults) : smResults[i].success}
Failed == {i \in 1..Len(smResults) : ~smResults[i].success}

\* C19: scrapeMany resolves, it is never rejected, and when it resolves the
\* results hold exactly one record for each input entry, with that entry's
\* URL, so that successful + failed = total = the number of input entries;
\* this whether scrapes fail or onProgress throws.
C19_OneRecordPerEntry ==
    /\ ~SmRejected
    /\ SmResolved =>
           /\ \A k \in 1..Len(smUrls) :
                  /\ Cardinality(SmRecordsOf(k)) = 1
                  /\ \A i \in SmRecordsOf(k) : smResults[i].url = smUrls[k]
           /\ Cardinality(Successful) + Cardinality(Failed) = Len(smUrls)

(***************************************************************************)
(* Claims about concurrent scrapes of one URL (SpecConcurrentScrape).      *)
(***************************************************************************)
\* C20: when the concurrent scrape calls for one URL have all missed the
\* cache and all have settled, each has returned a record, and the cache
\* holds for the URL the record of the last cache write.
C20_BothCompleteLastWriteWins ==
    (\A c \in ScrapeCalls : csPc[c] = "done" /\ csMissed[c]) =>
        /\ \A c \in ScrapeCalls : csOut[c].kind = "returned" /\ csOut[c].value \in Records
        /\ csWrites /= <<>>
        /\ csCache[validateUrl(csUrl).value] = csWrites[Len(csWrites)]
        /\ csCache[validateUrl(csUrl).value] \in Records

(***************************************************************************)
(* Claims about the waits of the retry loops (SpecRetry).                  *)
(***************************************************************************)

\* C21: the wait retryWithBackoff performs after failed attempt n lies between
\* max(baseDelay, 0.7 * baseDelay * 2^(n-1)) and 1.3 * baseDelay * 2^(n-1); it is
\* never below baseDelay, and never zero or negative when baseDelay > 0.
C21_WaitWithinJitterBand ==
    impl = "retry" =>
        \A n \in 1..Len(rWaits) :
            /\ rWaits[n] >= Max(Scale * rBaseDelay, ((7 * Scale) \div 10) * Exponential(rBaseDelay, n))
            /\ rWaits[n] <= ((13 * Scale) \div 10) * Exponential(rBaseDelay, n)
            /\ rWaits[n] >= Scale * rBaseDelay
            /\ rBaseDelay > 0 => rWaits[n] > 0

C21_Witness ==
    /\ impl = "retry"
    /\ rBaseDelay > 0
    /\ Len(rWaits) >= 2
    /\ rWaits[2] < Scale * Exponential(rBaseDelay, 2)
    /\ rWaits[1] > Scale * rBaseDelay

\* C22: the retry loops sleep only between attempts: a success after k failed
\* attempts has slept k times, maxAttempts failures have slept maxAttempts - 1
\* times, and no sleep follows the final attempt or a success.
C22_SleepsOnlyBetweenAttempts ==
    /\ (rpc = "done" /\ rres.kind = "returned" /\ calls >= 1) =>
           (sleeps = calls - 1 /\ Len(rWaits) = sleeps)
    /\ (rpc = "done" /\ rres.kind = "thrown" /\ maxRetries >= 1) =>
           (calls = maxRetries /\ sleeps = maxRetries - 1)
    /\ rpc = "sleep" => (attempt < maxRetries /\ rres = Pending /\ lastErr = calls)
    /\ sleeps < Max(maxRetries, 1)

C22_Witness ==
    /\ rpc = "done"
    /\ impl = "scrapeWebsite"
    /\ rres.kind = "thrown"
    /\ maxRetries >= 3
    /\ sleeps = maxRetries - 1

\* C39: retryWithBackoff never settles without having invoked the operation
\* at least once, and an error it rejects with is one the operation threw,
\* for every maxRetries value including 0.
C39_SettlesAfterACall ==
    (impl = "retry" /\ rpc = "done") =>
        /\ calls >= 1
        /\ rres.kind = "thrown" => rres.err \in 1..calls

(***************************************************************************)
(* Claims about the rendering strategy (SpecPlaywright).                   *)
(***************************************************************************)
OpenOf(c) == {h \in pwOpen : h.owner = c}

\* C23: when a rendering scrape has settled, by return or by throw and
\* whichever step failed, every browser and every browser context it opened
\* is closed; the context a call works in is one it opened itself, in its own
\* browser, and no other call holds it.
C23_BrowserAndContextReleased ==
    \A c \in PwCalls :
        /\ pwCall[c].pc = "done" => OpenOf(c) = {}
        /\ pwCall[c].context /= NoHandle =>
              /\ pwCall[c].context.owner = c
              /\ pwCall[c].context.kind = "context"
              /\ \A d \in PwCalls \ {c} : pwCall[d].context /= pwCall[c].context
        /\ pwCall[c].pc \in {"newPage", "goto", "idle", "extract"} =>
              (pwCall[c].context \in pwOpen /\ pwCall[c].browser \in pwOpen)

C23_Witness ==
    /\ pwCall[1].pc = "done" /\ pwCall[1].out = "thrown" /\ pwCall[1].cause = "extract"
    /\ pwCall[2].pc = "done" /\ pwCall[2].out = "returned" /\ pwCall[2].context /= NoHandle
    /\ pwOpen = {}

(***************************************************************************)
(* Claims about isAllowedByRobots (SpecRobots).                            *)
(***************************************************************************)
\* line i is a user-agent line
IsAgentLine(lines, i) == lines[i].kind = "user-agent"

\* line i lies in a block whose user-agent line names *
InStarBlock(lines, i) ==
    \E j \in 1..(i - 1) :
        /\ IsAgentLine(lines, j) /\ Includes(lines[j].arg, "*")
        /\ \A k \in (j + 1)..(i - 1) : ~IsAgentLine(lines, k)

\* line i is a non-empty Disallow of a * block whose path is a prefix of the
\* path of the URL
Denies(lines, i, url) ==
    /\ lines[i].kind = "disallow"
    /\ lines[i].arg /= <<>>
    /\ IsPrefix(lines[i].arg, Pathname(url))
    /\ InStarBlock(lines, i)

\* the lines that can decide: Allow lines, empty Disallow lines and the
\* Disallow lines of blocks for other user-agents are left out
Deciding(lines) ==
    LET keep == {i \in 1..Len(lines) :
                    /\ lines[i].kind /= "allow"
                    /\ lines[i].kind = "disallow" => (lines[i].arg /= <<>> /\ InStarBlock(lines, i))}
        RECURSIVE Pick(_)
        Pick(i) == IF i > Len(lines) THEN <<>>
                   ELSE IF i \in keep THEN <<lines[i]>> \o Pick(i + 1) ELSE Pick(i + 1)
    IN Pick(1)

C25_FailOpenAndProceed ==
    (rbPc = "done" /\ rbResponse.fetch \in {"error", "notOk"}) =>
        /\ rbAllowed.allowed
        /\ rbOut.category /= "robots"
        /\ ~rbCached => rbCalls >= 1

(***************************************************************************)
(* Claims about the failures of the rendering strategy (SpecPlaywright).   *)
(***************************************************************************)
\* C26: PlaywrightStrategy.scrape fails with a ScraperError of category
\* 'timeout' when the navigation exceeded its timeout, and of category
\* 'network' on every other navigation failure and on a launch failure.
C26_TimeoutAndNetworkCategories ==
    \A c \in PwCalls :
        (pwImpl = "PlaywrightStrategy" /\ pwCall[c].pc = "done" /\ pwCall[c].out = "thrown") =>
            /\ pwCall[c].err.type = "ScraperError"
            /\ pwCall[c].cause = "navTimeout" => pwCall[c].err.category = "timeout"
            /\ pwCall[c].cause \in {"navOther", "launch"} => pwCall[c].err.category = "network"

\* C27: in the rendering strategy a failed wait for network idle after a
\* successful navigation does not fail the scrape: when nothing else fails,
\* the extraction runs and a record is returned.
C27_IdleFailureTolerated ==
    \A c \in PwCalls :
        (pwCall[c].pc = "done" /\ pwCall[c].navigated /\ pwCall[c].idleFailed
            /\ pwCall[c].cause \in {"none", "idle"}) =>
            (pwCall[c].out = "returned" /\ pwCall[c].value \in Records)

(***************************************************************************)
(* Claims about validateUrl (SpecValidateUrl).                             *)
(***************************************************************************)
HasScheme(s) == StartsWith(s, "http://") \/ StartsWith(s, "https://")

\* C28: validateUrl is idempotent on what it accepts, and an input without a
\* scheme gets https:// prepended once: the second application adds nothing.
C28_ValidateUrlIdempotent ==
    (vuPc = "done" /\ vuOnce.ok) =>
        /\ vuTwice = vuOnce
        /\ ~HasScheme(Trim(vuInput.s)) =>
              /\ vuOnce.value = <<"https://">> \o Trim(vuInput.s)
              /\ ~HasScheme(Tail(vuTwice.value))

C28_Witness ==
    /\ vuPc = "done"
    /\ vuInput = Str(<<SP, "a.com", "/p">>)
    /\ vuTwice.ok
    /\ vuTwice.value = <<"https://", "a.com", "/p">>

(***************************************************************************)
(* Claims about validateContent (SpecValidateContent).                     *)
(***************************************************************************)
\* a title that is neither blank nor the sentinel, in any letter case
RealTitle(d) == Trim(d.title) /= <<>> /\ ToLowerCase(Trim(d.title)) /= <<"untitled">>
BodyLength(d) == d.html.len + d.text.len
Restricted(d) == d.html.blocked \/ d.text.blocked

\* C29, as stated: a null record, and a record titled "Untitled" with under
\* 100 characters of html and text, are invalid with at least one issue; any
\* record with a real title and a body of 200 or more characters is valid;
\* valid is true exactly when there is no issue.
C29_ValidAsStated ==
    vcPc = "done" =>
        /\ vcData.isNull => (~vcRet.valid /\ vcRet.issues /= <<>>)
        /\ (~vcData.isNull /\ vcData.title = <<"Untitled">> /\ BodyLength(vcData) < 100) =>
              (~vcRet.valid /\ vcRet.issues /= <<>>)
        /\ (~vcData.isNull /\ RealTitle(vcData) /\ BodyLength(vcData) >= 200) => vcRet.valid
        /\ vcRet.valid <=> (vcRet.issues = <<>>)

\* C29, amended: the same, with a record of a real title and 200 or more
\* characters valid when neither its html nor its text contains a phrase of
\* the blocked list.
C29_ValidUnlessRestricted ==
    vcPc = "done" =>
        /\ vcData.isNull => (~vcRet.valid /\ vcRet.issues /= <<>>)
        /\ (~vcData.isNull /\ vcData.title = <<"Untitled">> /\ BodyLength(vcData) < 100) =>
              (~vcRet.valid /\ vcRet.issues /= <<>>)
        /\ (~vcData.isNull /\ RealTitle(vcData) /\ BodyLength(vcData) >= 200 /\ ~Restricted(vcData)) =>
              vcRet.valid
        /\ (~vcData.isNull /\ Restricted(vcData)) => ~vcRet.valid
        /\ vcRet.valid <=> (vcRet.issues = <<>>)

C29_Witness ==
    /\ vcPc = "done"
    /\ ~vcData.isNull
    /\ vcData.title = <<"Hello">>
    /\ vcData.html = [len |-> 200, blocked |-> FALSE]
    /\ vcData.text = [len |-> 0, blocked |-> FALSE]
    /\ vcRet.valid

(***************************************************************************)
(* Claims about the title of a record (SpecTitle).                         *)
(***************************************************************************)
\* the first candidate, in the order <title>, h1, og:title, with something
\* other than whitespace in it; the sentinel when there is none
FirstCandidate(page) ==
    OrElse(Trim(page.title), OrElse(Trim(page.h1), OrElse(Trim(page.og), Untitled)))

\* C30: the title of every record is non-empty and is the first non-empty of
\* <title>, first h1, og:title, and "Untitled" when there is none.
C30_FirstNonEmptyCandidateWins ==
    tlBy \in Extractors =>
        /\ tlTitle /= <<>>
        /\ tlTitle = FirstCandidate(tlPage)

(***************************************************************************)
(* Claims about NoteManager.create (SpecNoteManager).                      *)
(***************************************************************************)
NoteFiles == {p \in NotePaths : NoteExists(nmFiles, p)}

\* C31: with overwrite off no create writes to a path that existed before
\* it, so n creates of one fileName leave n files and the first note keeps
\* its content; with overwrite on the one file is replaced and no other
\* file appears.
C31_CreateNeverOverwrites ==
    nmPc = "idle" =>
        IF nmOverwrite
        THEN NoteFiles \subseteq {NoStamp}
        ELSE /\ \A i \in 1..Len(nmWrites) : ~nmWrites[i].existed
             /\ Cardinality(NoteFiles) = nmCalls
             /\ nmCalls >= 1 => nmFiles[NoStamp] = 1

(***************************************************************************)
(* Claims about scrapeWebsiteWithFailover (SpecFailover).                  *)
(***************************************************************************)
FoCached == foHasCache /\ foBefore[foUrl] /= Absent
FoInvokedBy(who) == {i \in 1..Len(foInvoked) : foInvoked[i].by = who}

\* C32: a cached URL is returned with no scraper invoked; otherwise with
\* usePlaywright Playwright goes first and Cheerio only after Playwright
\* failed, without usePlaywright Playwright is never invoked; a result is
\* written to the cache whichever scraper produced it; when both fail the
\* cache is as before the call and the Cheerio error is thrown.
C32_FailoverChain ==
    foPc = "done" =>
        /\ FoCached =>
              /\ foInvoked = <<>>
              /\ foOut = Returned(foBefore[foUrl])
              /\ foCache = foBefore
        /\ ~FoCached =>
              /\ foInvoked /= <<>>
              /\ foUsePlaywright => foInvoked[1].by = "playwright"
              /\ \A i \in FoInvokedBy("cheerio") :
                    foUsePlaywright => (i = 2 /\ ~foInvoked[1].ok)
              /\ ~foUsePlaywright => FoInvokedBy("playwright") = {}
              /\ foInvoked[Len(foInvoked)].ok =>
                    /\ foOut.kind = "returned"
                    /\ foHasCache => foCache = [foBefore EXCEPT ![foUrl] = foOut.value]
              /\ ~foInvoked[Len(foInvoked)].ok =>
                    /\ foInvoked[Len(foInvoked)].by = "cheerio"
                    /\ foOut = Thrown("none", CheerioError)
                    /\ foCache = foBefore

\* a call that fell back to Cheerio after Playwright failed and cached the
\* result
C32_Witness ==
    /\ foPc = "done"
    /\ foUsePlaywright
    /\ Len(foInvoked) = 2
    /\ foInvoked[2].ok
    /\ foHasCache
    /\ foCache[foUrl] = foOut.value

(***************************************************************************)
(* Claims about the scrape_website tool (SpecMcpServer).                   *)
(***************************************************************************)
\* C33: a scrape_website call with a url runs a scrape of that url with the
\* given retries, answers success:true when the scrape succeeded and
\* success:false only when a scrape was run and failed.
C33_ToolRunsScrape ==
    (mcPc = "idle" /\ mcResponses /= <<>> /\ mcArgs.url /= "") =>
        /\ mcScrapes /= <<>>
        /\ \A i \in 1..Len(mcScrapes) :
              mcScrapes[i].url = mcArgs.url /\ mcScrapes[i].retries = mcArgs.retries
        /\ mcResponses[Len(mcResponses)].success <=>
              (\E i \in 1..Len(mcScrapes) : mcScrapes[i].ok)

(***************************************************************************)
(* Claims about the cache writes and the fetch counts of                   *)
(* UnifiedScraper.scrape (Spec).                                           *)
(***************************************************************************)
\* C34: a scrape call that ends in failure wrote nothing to the cache, which
\* is as it was when the call started; and no empty record is ever cached.
C34_FailedCallWritesNothing ==
    /\ (pc = "done" /\ outcome.kind = "thrown") => (cacheSets = 0 /\ cache = cacheAtStart)
    /\ \A u \in Urls : cache[u] /= Absent => Truthy(cache[u])

\* the steps of a scrape call between its start and its end
CallStep ==
    \/ \E allowed \in BOOLEAN : RobotsCheck(allowed)
    \/ RateLimitDelay
    \/ CacheLookup
    \/ Dispatch
    \/ CacheWrite
CallPositions == <<"robots", "delay", "cacheGet", "dispatch", "cacheSet", "done">>
Rank(p) == CHOOSE i \in 1..Len(CallPositions) : CallPositions[i] = p

CallAdvances ==
    pc \in {"robots", "delay", "cacheGet", "dispatch", "cacheSet"} => Rank(pc') > Rank(pc)

C36_StrategyCachesItsRecord ==
    stPc = "done" =>
        /\ (stBy = "CheerioStrategy" /\ stOut.kind = "returned") =>
              (Has(stCache, stUrl) /\ Entry(stCache, stUrl).data = stOut.value)
        /\ stKnown /= Absent => (~stRan /\ stOut = Returned(stKnown))

(***************************************************************************)
(* Claims about overlapping PersistentScrapeCache.set calls                *)
(* (SpecOverlappingSets).                                                  *)
(***************************************************************************)
KsSettled == \A c \in SetCalls : ksCall[c].pc \in {"idle", "done"}

\* C37: once every overlapping set call has settled, the memory layer holds
\* for each of its URLs the value the store holds; and the memory layer
\* never holds more than maxMemorySize entries.
C37_MemoryAgreesWithStore ==
    /\ Len(ksMemory) <= MaxMemorySize
    /\ KsSettled => \A i \in 1..Len(ksMemory) : ksMemory[i].value = ksStore[ksMemory[i].key]

(***************************************************************************)
(* Claims about PersistentCache.save and the calls that overlap it         *)
(* (SpecSaveOverlap).                                                      *)
(***************************************************************************)
\* the document on disk has the URL with that data
OnDisk(url, data) ==
    /\ svFile.exists
    /\ \E i \in 1..Len(svFile.entries) :
          svFile.entries[i].key = url /\ svFile.entries[i].data = data

\* C38: when a save() has completed and dirty is false, every URL of the
\* in-memory map is in the document on disk with the same data.
C38_CleanMeansSaved ==
    (svPc = "idle" /\ svSaves > 0 /\ ~svDirty) =>
        \A i \in 1..Len(svCache) : OnDisk(svCache[i].key, svCache[i].data)

====
